---------------------------- MODULE Spec2Model ----------------------------
(***************************************************************************)
(* A model of clay's math library (include/clay_math.hpp): Vec3, Vec4,      *)
(* Quat and Mat4, and of a client that builds transforms with them.         *)
(*                                                                          *)
(* A float is modelled by its exact value.  The values are the numbers      *)
(* (a + b*sqrt(2)) / d with integers a, b and d > 0, written <<a, b, d>>,   *)
(* together with the three non-finite values of IEEE-754: <<1, 0, 0>> is    *)
(* +Inf, <<-1, 0, 0>> is -Inf and <<0, 0, 0>> is NaN.  The field Q(sqrt 2)  *)
(* is closed under + - * / and holds sin and cos of every multiple of pi/4, *)
(* so quarter turns are exact.  Rounding and the sign of zero are not       *)
(* modelled.                                                                *)
(***************************************************************************)
EXTENDS Integers, Sequences, FiniteSets, TLC

(***************************************************************************)
(* Bounds of the model.                                                     *)
(***************************************************************************)
\* Scalar inputs (coordinates, box planes) range over -MaxCoord..MaxCoord.
MaxCoord == 2
\* A client applies at most MaxOps mutators to one matrix or quaternion.
MaxOps == 2
\* The number of translate and scale calls of the client that keeps a log.
MaxSteps == 3
\* The number of app commands, and of SDL events, the platform delivers.
MaxCmds == 3

(***************************************************************************)
(* float                                                                    *)
(***************************************************************************)
RECURSIVE GCD(_, _)
GCD(x, y) == IF y = 0 THEN x ELSE GCD(y, x % y)

Abs(x) == IF x < 0 THEN -x ELSE x

\* The value (a + b*sqrt(2)) / d in lowest terms with a positive denominator.
Norm(a, b, d) ==
    LET g == GCD(GCD(Abs(a), Abs(b)), Abs(d))
        s == IF d < 0 THEN -1 ELSE 1
    IN  <<(s * a) \div g, (s * b) \div g, (s * d) \div g>>

\* The float of an integer literal, and of a fraction n/d.
F(n) == <<n, 0, 1>>
Frac(n, d) == Norm(n, 0, d)

PosInf == <<1, 0, 0>>
NegInf == <<-1, 0, 0>>
NaN == <<0, 0, 0>>

IsFinite(x) == x[3] # 0
IsNaN(x) == x = NaN
IsInf(x) == x = PosInf \/ x = NegInf

\* The sign of p/q - x for integers p >= 0, q > 0 and the irrational x with
\* continued fraction [a0; 2, 2, 2, ...]; sqrt(2) is [1; 2, 2, 2, ...].  No
\* product is formed, so p and q may be as large as an integer gets.
RECURSIVE CmpCF(_, _, _)
CmpCF(p, q, a0) ==
    IF p \div q > a0 THEN 1
    ELSE IF p \div q < a0 THEN -1
    ELSE IF p % q = 0 THEN -1
    ELSE -CmpCF(q, p % q, 2)

\* The sign (-1, 0, 1) of a + b*sqrt(2).
SignQ2(a, b) ==
    IF a >= 0 /\ b >= 0 THEN (IF a = 0 /\ b = 0 THEN 0 ELSE 1)
    ELSE IF a <= 0 /\ b <= 0 THEN -1
    ELSE IF a > 0 THEN CmpCF(a, -b, 1)
    ELSE -CmpCF(-a, b, 1)

\* The sign of a float that is not NaN.
Sign(x) == IF IsFinite(x) THEN SignQ2(x[1], x[2]) ELSE x[1]

IsZero(x) == IsFinite(x) /\ x[1] = 0 /\ x[2] = 0

InfOfSign(s) == IF s < 0 THEN NegInf ELSE PosInf

\* Unary minus.
FNeg(x) == <<-x[1], -x[2], x[3]>>

\* x + y
FAdd(x, y) ==
    IF IsNaN(x) \/ IsNaN(y) THEN NaN
    ELSE IF IsInf(x) THEN (IF IsInf(y) /\ y # x THEN NaN ELSE x)
    ELSE IF IsInf(y) THEN y
    ELSE LET g == GCD(x[3], y[3])
             dx == y[3] \div g
             dy == x[3] \div g
         IN  Norm(x[1] * dx + y[1] * dy, x[2] * dx + y[2] * dy, x[3] * dx)

\* x - y
FSub(x, y) == FAdd(x, FNeg(y))

\* x * y
FMul(x, y) ==
    IF IsNaN(x) \/ IsNaN(y) THEN NaN
    ELSE IF IsInf(x) \/ IsInf(y)
         THEN (IF IsZero(x) \/ IsZero(y) THEN NaN ELSE InfOfSign(Sign(x) * Sign(y)))
    ELSE LET gx == GCD(GCD(Abs(x[1]), Abs(x[2])), y[3])
             gy == GCD(GCD(Abs(y[1]), Abs(y[2])), x[3])
             xa == x[1] \div gx
             xb == x[2] \div gx
             ya == y[1] \div gy
             yb == y[2] \div gy
         IN  Norm(xa * ya + 2 * xb * yb, xa * yb + xb * ya, (x[3] \div gy) * (y[3] \div gx))

\* x / y: a finite non-zero x over 0 is an infinity, 0 / 0 and Inf / Inf are NaN.
FDiv(x, y) ==
    IF IsNaN(x) \/ IsNaN(y) THEN NaN
    ELSE IF IsInf(x)
         THEN (IF IsInf(y) THEN NaN
               ELSE InfOfSign(Sign(x) * (IF Sign(y) < 0 THEN -1 ELSE 1)))
    ELSE IF IsInf(y) THEN F(0)
    ELSE IF IsZero(y) THEN (IF IsZero(x) THEN NaN ELSE InfOfSign(Sign(x)))
    ELSE IF y[2] = 0 THEN FMul(x, Norm(y[3], 0, y[1]))
    ELSE FMul(x, Norm(y[1] * y[3], (-y[2]) * y[3], y[1] * y[1] - 2 * y[2] * y[2]))

\* The comparisons of C++: every comparison with NaN but != is false.
FEq(x, y) == ~IsNaN(x) /\ ~IsNaN(y) /\ x = y
FLt(x, y) == ~IsNaN(x) /\ ~IsNaN(y) /\ x # y /\ Sign(FSub(y, x)) > 0
FGe(x, y) == ~IsNaN(x) /\ ~IsNaN(y) /\ ~FLt(x, y)

\* std::abs(float)
FAbs(x) == IF ~IsNaN(x) /\ Sign(x) < 0 THEN FNeg(x) ELSE x

\* The integer part of a finite x >= 0.
IntPart(x) ==
    CHOOSE n \in 0..((Abs(x[1]) + 2 * Abs(x[2])) \div x[3]) :
        ~FLt(x, F(n)) /\ FLt(x, F(n + 1))

\* int abs(int) applied to a finite float: the conversion to int drops the
\* fraction, and the int result is converted back for the comparison.
FAbsInt(x) == F(IntPart(FAbs(x)))

\* abs(x) without std::, with <cmath> included and no using-directive: the
\* build decides whether the call is abs(float) or int abs(int).
FAbsOf(x, int_abs) == IF int_abs THEN FAbsInt(x) ELSE FAbs(x)

\* The integer square root of n >= 0.
RECURSIVE ISqrtFrom(_, _)
ISqrtFrom(n, r) == IF (r + 1) * (r + 1) > n THEN r ELSE ISqrtFrom(n, r + 1)
ISqrt(n) == ISqrtFrom(n, 0)
IsSquare(n) == n >= 0 /\ ISqrt(n) * ISqrt(n) = n

\* x is p*p/(q*q) for integers p >= 0 and q > 0.
IsRationalSquare(x) == IsFinite(x) /\ x[2] = 0 /\ IsSquare(x[1]) /\ IsSquare(x[3])

\* sqrt(x) is a value (a + b*sqrt(2))/d: x is a rational square or twice one.
HasSqrt(x) ==
    /\ IsFinite(x)
    /\ x[2] = 0
    /\ IsRationalSquare(x) \/ IsRationalSquare(Norm(x[1], 0, 2 * x[3]))

\* sqrt(x).  A positive x whose root is no value (a + b*sqrt(2))/d has none
\* here (NaN stands for it); the clients pass no such x.
Sqrt(x) ==
    IF IsNaN(x) \/ Sign(x) < 0 THEN NaN
    ELSE IF x = PosInf THEN PosInf
    ELSE IF IsRationalSquare(x) THEN Norm(ISqrt(x[1]), 0, ISqrt(x[3]))
    ELSE IF HasSqrt(x)
         THEN LET y == Norm(x[1], 0, 2 * x[3])
              IN  Norm(0, ISqrt(y[1]), ISqrt(y[3]))
    ELSE NaN

\* sqrt(x) < y for y > 0: sqrt is increasing, so for x >= 0 this is x < y*y,
\* whether or not sqrt(x) is a value (a + b*sqrt(2))/d; the root of a
\* negative x is NaN, which is under nothing.
SqrtLt(x, y) == ~IsNaN(x) /\ Sign(x) >= 0 /\ FLt(x, FMul(y, y))

\* abs(sqrt(x)) < y for 0 < y <= 1.  int abs(int) gives the integer part of
\* the root, which is under y exactly when the root is under 1.
AbsSqrtLt(x, y, int_abs) == IF int_abs THEN SqrtLt(x, F(1)) ELSE SqrtLt(x, y)

(***************************************************************************)
(* Angles.  sin and cos are not rational functions, so an angle (a float of *)
(* radians in the code) is modelled by the exact cosine and sine of its     *)
(* half, the only place an angle is used by from_axis_angle and from_euler. *)
(***************************************************************************)
Angle(c, s) == [c |-> c, s |-> s]
CosHalf(angle) == angle.c
SinHalf(angle) == angle.s
\* tan(angle / 2)
TanHalf(angle) == FDiv(angle.s, angle.c)

HalfSqrt2 == <<0, 1, 2>>
AngleZero == Angle(F(1), F(0))
\* pi/2, pi, -pi/2: half angles pi/4, pi/2, -pi/4.
AngleQuarter == Angle(HalfSqrt2, HalfSqrt2)
AngleHalfTurn == Angle(F(0), F(1))
AngleMinusQuarter == Angle(HalfSqrt2, FNeg(HalfSqrt2))
\* 2*atan(1/2) and 2*atan(4/3): half angles on the 3-4-5 triangle.
AngleAtan34 == Angle(Frac(4, 5), Frac(3, 5))
AngleAtan43 == Angle(Frac(3, 5), Frac(4, 5))

(***************************************************************************)
(* Vec3, Vec4                                                               *)
(***************************************************************************)
Vec3(x, y, z) == [x |-> x, y |-> y, z |-> z]
Vec4(x, y, z, w) == [x |-> x, y |-> y, z |-> z, w |-> w]

\* Vec3::dot
Vec3_dot(this, other) ==
    FAdd(FAdd(FMul(this.x, other.x), FMul(this.y, other.y)), FMul(this.z, other.z))

\* Vec3::length_squared
Vec3_length_squared(this) == Vec3_dot(this, this)

\* A faulty variant of Vec3::cross: the two products of each component are
\* exchanged, which is the left-handed product.
Vec3_cross_lefthanded(this, other) ==
    Vec3(FSub(FMul(this.z, other.y), FMul(this.y, other.z)),
         FSub(FMul(this.x, other.z), FMul(this.z, other.x)),
         FSub(FMul(this.y, other.x), FMul(this.x, other.y)))

\* Vec3::cross
Vec3_cross(this, other) ==
    Vec3(FSub(FMul(this.y, other.z), FMul(this.z, other.y)),
         FSub(FMul(this.z, other.x), FMul(this.x, other.z)),
         FSub(FMul(this.x, other.y), FMul(this.y, other.x)))

\* Vec3::operator-()
Vec3_neg(this) == Vec3(FNeg(this.x), FNeg(this.y), FNeg(this.z))

\* Vec3::length
Vec3_length(this) == Sqrt(Vec3_dot(this, this))

\* Vec3::operator/(float)
Vec3_div(this, value) == Vec3(FDiv(this.x, value), FDiv(this.y, value), FDiv(this.z, value))

\* A faulty variant of Vec3::normalize: a vector of length 0 is returned as
\* it is.
Vec3_normalize_guarded(this) ==
    IF IsZero(Vec3_length(this)) THEN this ELSE Vec3_div(this, Vec3_length(this))

\* Vec3::normalize
Vec3_normalize(this) == Vec3_div(this, Vec3_length(this))

\* Vec3::operator-(const Vec3 &)
Vec3_sub(this, other) ==
    Vec3(FSub(this.x, other.x), FSub(this.y, other.y), FSub(this.z, other.z))

\* Vec2
Vec2(x, y) == [x |-> x, y |-> y]
Vec2_dot(this, other) == FAdd(FMul(this.x, other.x), FMul(this.y, other.y))
Vec2_length(this) == Sqrt(Vec2_dot(this, this))
Vec2_div(this, value) == Vec2(FDiv(this.x, value), FDiv(this.y, value))
Vec2_normalize(this) == Vec2_div(this, Vec2_length(this))

\* Vec4(const Vec3 &v, float w).  The body ends with w = w, which assigns the
\* parameter to itself: the member w is never written, and what a later read of
\* it gives (indeterminate) is not fixed by the arguments.
Vec4_from_Vec3(v, w, indeterminate) == Vec4(v.x, v.y, v.z, indeterminate)

\* Vec4
Vec4_dot(this, other) ==
    FAdd(FAdd(FAdd(FMul(this.x, other.x), FMul(this.y, other.y)), FMul(this.z, other.z)),
         FMul(this.w, other.w))
Vec4_length(this) == Sqrt(Vec4_dot(this, this))
Vec4_div(this, value) ==
    Vec4(FDiv(this.x, value), FDiv(this.y, value), FDiv(this.z, value), FDiv(this.w, value))
Vec4_normalize(this) == Vec4_div(this, Vec4_length(this))

(***************************************************************************)
(* Quat                                                                     *)
(***************************************************************************)
Quat(i, j, k, r) == [i |-> i, j |-> j, k |-> k, r |-> r]

\* Quat()
Quat_default == Quat(F(0), F(0), F(0), F(1))

Quat_conjugate(q) == Quat(FNeg(q.i), FNeg(q.j), FNeg(q.k), q.r)

\* i*i + j*j + k*k + r*r
Quat_norm2(q) ==
    FAdd(FAdd(FAdd(FMul(q.i, q.i), FMul(q.j, q.j)), FMul(q.k, q.k)), FMul(q.r, q.r))

\* operator/(float)
Quat_div(q, s) == Quat(FDiv(q.i, s), FDiv(q.j, s), FDiv(q.k, s), FDiv(q.r, s))

\* normalize()
Quat_normalize(q) ==
    LET length == Sqrt(Quat_norm2(q))
    IN  Quat(FDiv(q.i, length), FDiv(q.j, length), FDiv(q.k, length), FDiv(q.r, length))

\* dot(b)
Quat_dot(a, b) ==
    FAdd(FAdd(FAdd(FMul(a.i, b.i), FMul(a.j, b.j)), FMul(a.k, b.k)), FMul(a.r, b.r))

\* 0.001f, the threshold of slerp() on sin_half_theta
SlerpEpsilon == Frac(1, 1000)

\* sin(t * acos(c)) / sqrt(1 - c*c) for -1 < c < 1, the ratio of slerp(), at
\* the three t where it is algebraic in c: 0 at t = 0, 1 at t = 1, and
\* sin(x/2) / sin(x) = 1 / sqrt(2 * (1 + cos(x))) at t = 1/2.
SinRatio(t, c) ==
    IF t = F(0) THEN F(0)
    ELSE IF t = F(1) THEN F(1)
    ELSE IF t = Frac(1, 2) THEN FDiv(F(1), Sqrt(FMul(F(2), FAdd(F(1), c))))
    ELSE NaN

\* The first return of slerp() after the guard: the average of a and b.
Quat_slerp_average(a, b) ==
    Quat(FAdd(FMul(a.i, Frac(1, 2)), FMul(b.i, Frac(1, 2))),
         FAdd(FMul(a.j, Frac(1, 2)), FMul(b.j, Frac(1, 2))),
         FAdd(FMul(a.k, Frac(1, 2)), FMul(b.k, Frac(1, 2))),
         FAdd(FMul(a.r, Frac(1, 2)), FMul(b.r, Frac(1, 2))))

\* The last return of slerp(): a and b weighted by ratio_a and ratio_b.
Quat_slerp_weighted(a, b, t, cos_half_theta) ==
    LET ratio_a == SinRatio(FSub(F(1), t), cos_half_theta)
        ratio_b == SinRatio(t, cos_half_theta)
    IN  Quat(FAdd(FMul(a.i, ratio_a), FMul(b.i, ratio_b)),
             FAdd(FMul(a.j, ratio_a), FMul(b.j, ratio_b)),
             FAdd(FMul(a.k, ratio_a), FMul(b.k, ratio_b)),
             FAdd(FMul(a.r, ratio_a), FMul(b.r, ratio_b)))

\* A faulty variant of slerp(): the guard is > 1 where the code has >= 1.
Quat_slerp_strict(a, b, t, int_abs) ==
    LET cos_half_theta == Quat_dot(a, b)
        sin2 == FSub(F(1), FMul(cos_half_theta, cos_half_theta))
    IN  IF FLt(F(1), FAbsOf(cos_half_theta, int_abs)) THEN a
        ELSE IF AbsSqrtLt(sin2, SlerpEpsilon, int_abs) THEN Quat_slerp_average(a, b)
        ELSE Quat_slerp_weighted(a, b, t, cos_half_theta)

\* A faulty variant of slerp(): the test on sin_half_theta is missing.
Quat_slerp_untested(a, b, t, int_abs) ==
    LET cos_half_theta == Quat_dot(a, b)
    IN  IF FGe(FAbsOf(cos_half_theta, int_abs), F(1)) THEN a
        ELSE Quat_slerp_weighted(a, b, t, cos_half_theta)

\* slerp(a, b, t).  int_abs: the build takes abs to be int abs(int).
\* sin_half_theta is the root of sin2.
Quat_slerp(a, b, t, int_abs) ==
    LET cos_half_theta == Quat_dot(a, b)
        sin2 == FSub(F(1), FMul(cos_half_theta, cos_half_theta))
    IN  IF FGe(FAbsOf(cos_half_theta, int_abs), F(1)) THEN a
        ELSE IF AbsSqrtLt(sin2, SlerpEpsilon, int_abs) THEN Quat_slerp_average(a, b)
        ELSE Quat_slerp_weighted(a, b, t, cos_half_theta)

\* A faulty variant of inverse(): the conjugate is not divided by the
\* squared norm.
Quat_inverse_undivided(q) == Quat_conjugate(q)

Quat_inverse(q) == Quat_div(Quat_conjugate(q), Quat_norm2(q))

\* A faulty variant of operator*(const Quat &): one sign of the k component
\* is wrong.
Quat_mul_signflip(a, b) ==
    Quat(FAdd(FSub(FAdd(FMul(a.i, b.r), FMul(a.j, b.k)), FMul(a.k, b.j)), FMul(a.r, b.i)),
         FAdd(FAdd(FAdd(FMul(FNeg(a.i), b.k), FMul(a.j, b.r)), FMul(a.k, b.i)), FMul(a.r, b.j)),
         FAdd(FAdd(FAdd(FMul(a.i, b.j), FMul(a.j, b.i)), FMul(a.k, b.r)), FMul(a.r, b.k)),
         FAdd(FSub(FSub(FMul(FNeg(a.i), b.i), FMul(a.j, b.j)), FMul(a.k, b.k)), FMul(a.r, b.r)))

\* operator*(const Quat &)
Quat_mul(a, b) ==
    Quat(FAdd(FSub(FAdd(FMul(a.i, b.r), FMul(a.j, b.k)), FMul(a.k, b.j)), FMul(a.r, b.i)),
         FAdd(FAdd(FAdd(FMul(FNeg(a.i), b.k), FMul(a.j, b.r)), FMul(a.k, b.i)), FMul(a.r, b.j)),
         FAdd(FAdd(FSub(FMul(a.i, b.j), FMul(a.j, b.i)), FMul(a.k, b.r)), FMul(a.r, b.k)),
         FAdd(FSub(FSub(FMul(FNeg(a.i), b.i), FMul(a.j, b.j)), FMul(a.k, b.k)), FMul(a.r, b.r)))

\* A faulty variant of operator*(const Vec4 &): the conjugate is missing.
Quat_mul_Vec4_unconjugated(this, v) ==
    LET q == Quat(v.x, v.y, v.z, F(0))
        result == Quat_mul(this, Quat_mul(q, this))
    IN  Vec4(result.i, result.j, result.k, F(1))

\* A faulty variant of operator*(const Vec4 &): the conjugate is on the left,
\* which turns the other way.
Quat_mul_Vec4_lefthanded(this, v) ==
    LET q == Quat(v.x, v.y, v.z, F(0))
        result == Quat_mul(Quat_conjugate(this), Quat_mul(q, this))
    IN  Vec4(result.i, result.j, result.k, F(1))

\* A faulty variant of operator*(const Vec4 &): the w of the operand is kept.
Quat_mul_Vec4_keeps_w(this, v) ==
    LET q == Quat(v.x, v.y, v.z, F(0))
        result == Quat_mul(this, Quat_mul(q, Quat_conjugate(this)))
    IN  Vec4(result.i, result.j, result.k, v.w)

\* operator*(const Vec4 &)
Quat_mul_Vec4(this, v) ==
    LET q == Quat(v.x, v.y, v.z, F(0))
        result == Quat_mul(this, Quat_mul(q, Quat_conjugate(this)))
    IN  Vec4(result.i, result.j, result.k, F(1))

\* operator*(const Vec3 &)
Quat_mul_Vec3(this, v) ==
    LET result == Quat_mul_Vec4(this, Vec4(v.x, v.y, v.z, F(1)))
    IN  Vec3(result.x, result.y, result.z)

\* The forward, right and new_up of look_at(from, to, up).
LookAt_forward(from, to) == Vec3_normalize(Vec3_sub(to, from))
LookAt_right(from, to, up) == Vec3_normalize(Vec3_cross(LookAt_forward(from, to), up))
LookAt_new_up(from, to, up) ==
    Vec3_normalize(Vec3_cross(LookAt_right(from, to, up), LookAt_forward(from, to)))

\* 1.0f + right.x + new_up.y + forward.z in look_at(from, to, up)
LookAt_trace(from, to, up) ==
    FAdd(FAdd(FAdd(F(1), LookAt_right(from, to, up).x), LookAt_new_up(from, to, up).y),
         LookAt_forward(from, to).z)

\* look_at(from, to, up)
Quat_look_at(from, to, up) ==
    LET forward == LookAt_forward(from, to)
        right == LookAt_right(from, to, up)
        new_up == LookAt_new_up(from, to, up)
        w == FDiv(Sqrt(LookAt_trace(from, to, up)), F(2))
        w4_recip == FDiv(F(1), FMul(F(4), w))
    IN  Quat(FMul(FSub(new_up.z, forward.y), w4_recip),
             FMul(FSub(forward.x, right.z), w4_recip),
             FMul(FSub(right.y, new_up.x), w4_recip),
             w)

\* from_axis_angle(axis, angle)
Quat_from_axis_angle(axis, angle) ==
    LET s == SinHalf(angle)
    IN  Quat(FMul(axis.x, s), FMul(axis.y, s), FMul(axis.z, s), CosHalf(angle))

\* A faulty variant of from_euler(): the signs of the second terms are those
\* of the composition in the opposite order.
Quat_from_euler_reversed(euler) ==
    LET c1 == CosHalf(euler.x)
        c2 == CosHalf(euler.y)
        c3 == CosHalf(euler.z)
        s1 == SinHalf(euler.x)
        s2 == SinHalf(euler.y)
        s3 == SinHalf(euler.z)
    IN  Quat(FSub(FMul(FMul(s1, c2), c3), FMul(FMul(c1, s2), s3)),
             FAdd(FMul(FMul(c1, s2), c3), FMul(FMul(s1, c2), s3)),
             FSub(FMul(FMul(c1, c2), s3), FMul(FMul(s1, s2), c3)),
             FAdd(FMul(FMul(c1, c2), c3), FMul(FMul(s1, s2), s3)))

\* from_euler(euler): euler holds three angles.
Quat_from_euler(euler) ==
    LET c1 == CosHalf(euler.x)
        c2 == CosHalf(euler.y)
        c3 == CosHalf(euler.z)
        s1 == SinHalf(euler.x)
        s2 == SinHalf(euler.y)
        s3 == SinHalf(euler.z)
    IN  Quat(FAdd(FMul(FMul(s1, c2), c3), FMul(FMul(c1, s2), s3)),
             FSub(FMul(FMul(c1, s2), c3), FMul(FMul(s1, c2), s3)),
             FAdd(FMul(FMul(c1, c2), s3), FMul(FMul(s1, s2), c3)),
             FSub(FMul(FMul(c1, c2), c3), FMul(FMul(s1, s2), s3)))

(***************************************************************************)
(* Mat4: data[0..15]                                                        *)
(***************************************************************************)
\* Mat4(m00, ..., m33): the sixteen arguments go to data[0], ..., data[15].
Mat4(args) == [n \in 0..15 |-> args[n + 1]]

\* Mat4()
Mat4_default == [n \in 0..15 |-> F(0)]

\* A faulty variant of identity(): the last diagonal entry is left 0.
Mat4_identity_w0 ==
    Mat4(<<F(1), F(0), F(0), F(0),
           F(0), F(1), F(0), F(0),
           F(0), F(0), F(1), F(0),
           F(0), F(0), F(0), F(0)>>)

Mat4_identity ==
    Mat4(<<F(1), F(0), F(0), F(0),
           F(0), F(1), F(0), F(0),
           F(0), F(0), F(1), F(0),
           F(0), F(0), F(0), F(1)>>)

Mat4_transpose(m) ==
    Mat4(<<m[0], m[4], m[8], m[12],
           m[1], m[5], m[9], m[13],
           m[2], m[6], m[10], m[14],
           m[3], m[7], m[11], m[15]>>)

Mat4_cofactor(m) ==
    [n \in 0..15 |->
        CASE n = 0 ->
            FAdd(FSub(FMul(m[5], FSub(FMul(m[10], m[15]), FMul(m[11], m[14]))), FMul(m[6], FSub(FMul(m[9], m[15]), FMul(m[11], m[13])))), FMul(m[7], FSub(FMul(m[9], m[14]), FMul(m[10], m[13]))))
        [] n = 1 ->
            FNeg(FAdd(FSub(FMul(m[4], FSub(FMul(m[10], m[15]), FMul(m[11], m[14]))), FMul(m[6], FSub(FMul(m[8], m[15]), FMul(m[11], m[12])))), FMul(m[7], FSub(FMul(m[8], m[14]), FMul(m[10], m[12])))))
        [] n = 2 ->
            FAdd(FSub(FMul(m[4], FSub(FMul(m[9], m[15]), FMul(m[11], m[13]))), FMul(m[5], FSub(FMul(m[8], m[15]), FMul(m[11], m[12])))), FMul(m[7], FSub(FMul(m[8], m[13]), FMul(m[9], m[12]))))
        [] n = 3 ->
            FNeg(FAdd(FSub(FMul(m[4], FSub(FMul(m[9], m[14]), FMul(m[10], m[13]))), FMul(m[5], FSub(FMul(m[8], m[14]), FMul(m[10], m[12])))), FMul(m[6], FSub(FMul(m[8], m[13]), FMul(m[9], m[12])))))
        [] n = 4 ->
            FNeg(FAdd(FSub(FMul(m[1], FSub(FMul(m[10], m[15]), FMul(m[11], m[14]))), FMul(m[2], FSub(FMul(m[9], m[15]), FMul(m[11], m[13])))), FMul(m[3], FSub(FMul(m[9], m[14]), FMul(m[10], m[13])))))
        [] n = 5 ->
            FAdd(FSub(FMul(m[0], FSub(FMul(m[10], m[15]), FMul(m[11], m[14]))), FMul(m[2], FSub(FMul(m[8], m[15]), FMul(m[11], m[12])))), FMul(m[3], FSub(FMul(m[8], m[14]), FMul(m[10], m[12]))))
        [] n = 6 ->
            FNeg(FAdd(FSub(FMul(m[0], FSub(FMul(m[9], m[15]), FMul(m[11], m[13]))), FMul(m[1], FSub(FMul(m[8], m[15]), FMul(m[11], m[12])))), FMul(m[3], FSub(FMul(m[8], m[13]), FMul(m[9], m[12])))))
        [] n = 7 ->
            FAdd(FSub(FMul(m[0], FSub(FMul(m[9], m[14]), FMul(m[10], m[13]))), FMul(m[1], FSub(FMul(m[8], m[14]), FMul(m[10], m[12])))), FMul(m[2], FSub(FMul(m[8], m[13]), FMul(m[9], m[12]))))
        [] n = 8 ->
            FAdd(FSub(FMul(m[1], FSub(FMul(m[6], m[15]), FMul(m[7], m[14]))), FMul(m[2], FSub(FMul(m[5], m[15]), FMul(m[7], m[13])))), FMul(m[3], FSub(FMul(m[5], m[14]), FMul(m[6], m[13]))))
        [] n = 9 ->
            FNeg(FAdd(FSub(FMul(m[0], FSub(FMul(m[6], m[15]), FMul(m[7], m[14]))), FMul(m[2], FSub(FMul(m[4], m[15]), FMul(m[7], m[12])))), FMul(m[3], FSub(FMul(m[4], m[14]), FMul(m[6], m[12])))))
        [] n = 10 ->
            FAdd(FSub(FMul(m[0], FSub(FMul(m[5], m[15]), FMul(m[7], m[13]))), FMul(m[1], FSub(FMul(m[4], m[15]), FMul(m[7], m[12])))), FMul(m[3], FSub(FMul(m[4], m[13]), FMul(m[5], m[12]))))
        [] n = 11 ->
            FNeg(FAdd(FSub(FMul(m[0], FSub(FMul(m[5], m[14]), FMul(m[6], m[13]))), FMul(m[1], FSub(FMul(m[4], m[14]), FMul(m[6], m[12])))), FMul(m[2], FSub(FMul(m[4], m[13]), FMul(m[5], m[12])))))
        [] n = 12 ->
            FNeg(FAdd(FSub(FMul(m[1], FSub(FMul(m[6], m[11]), FMul(m[7], m[10]))), FMul(m[2], FSub(FMul(m[5], m[11]), FMul(m[7], m[9])))), FMul(m[3], FSub(FMul(m[5], m[10]), FMul(m[6], m[9])))))
        [] n = 13 ->
            FAdd(FSub(FMul(m[0], FSub(FMul(m[6], m[11]), FMul(m[7], m[10]))), FMul(m[2], FSub(FMul(m[4], m[11]), FMul(m[7], m[8])))), FMul(m[3], FSub(FMul(m[4], m[10]), FMul(m[6], m[8]))))
        [] n = 14 ->
            FNeg(FAdd(FSub(FMul(m[0], FSub(FMul(m[5], m[11]), FMul(m[7], m[9]))), FMul(m[1], FSub(FMul(m[4], m[11]), FMul(m[7], m[8])))), FMul(m[3], FSub(FMul(m[4], m[9]), FMul(m[5], m[8])))))
        [] n = 15 ->
            FAdd(FSub(FMul(m[0], FSub(FMul(m[5], m[10]), FMul(m[6], m[9]))), FMul(m[1], FSub(FMul(m[4], m[10]), FMul(m[6], m[8])))), FMul(m[2], FSub(FMul(m[4], m[9]), FMul(m[5], m[8]))))]

\* A faulty variant of determinant(): the four terms are all added.
Mat4_determinant_unsigned(m) ==
    LET t0 ==
            FMul(m[0], FAdd(FSub(FMul(m[5], FSub(FMul(m[10], m[15]), FMul(m[11], m[14]))), FMul(m[6], FSub(FMul(m[9], m[15]), FMul(m[11], m[13])))), FMul(m[7], FSub(FMul(m[9], m[14]), FMul(m[10], m[13]))))) IN
    LET t1 ==
            FMul(m[1], FAdd(FSub(FMul(m[4], FSub(FMul(m[10], m[15]), FMul(m[11], m[14]))), FMul(m[6], FSub(FMul(m[8], m[15]), FMul(m[11], m[12])))), FMul(m[7], FSub(FMul(m[8], m[14]), FMul(m[10], m[12]))))) IN
    LET t2 ==
            FMul(m[2], FAdd(FSub(FMul(m[4], FSub(FMul(m[9], m[15]), FMul(m[11], m[13]))), FMul(m[5], FSub(FMul(m[8], m[15]), FMul(m[11], m[12])))), FMul(m[7], FSub(FMul(m[8], m[13]), FMul(m[9], m[12]))))) IN
    LET t3 ==
            FMul(m[3], FAdd(FSub(FMul(m[4], FSub(FMul(m[9], m[14]), FMul(m[10], m[13]))), FMul(m[5], FSub(FMul(m[8], m[14]), FMul(m[10], m[12])))), FMul(m[6], FSub(FMul(m[8], m[13]), FMul(m[9], m[12]))))) IN
    FAdd(FAdd(FAdd(FAdd(F(0), t0), t1), t2), t3)

\* determinant()
Mat4_determinant(m) ==
    LET t0 ==
            FMul(m[0], FAdd(FSub(FMul(m[5], FSub(FMul(m[10], m[15]), FMul(m[11], m[14]))), FMul(m[6], FSub(FMul(m[9], m[15]), FMul(m[11], m[13])))), FMul(m[7], FSub(FMul(m[9], m[14]), FMul(m[10], m[13]))))) IN
    LET t1 ==
            FMul(m[1], FAdd(FSub(FMul(m[4], FSub(FMul(m[10], m[15]), FMul(m[11], m[14]))), FMul(m[6], FSub(FMul(m[8], m[15]), FMul(m[11], m[12])))), FMul(m[7], FSub(FMul(m[8], m[14]), FMul(m[10], m[12]))))) IN
    LET t2 ==
            FMul(m[2], FAdd(FSub(FMul(m[4], FSub(FMul(m[9], m[15]), FMul(m[11], m[13]))), FMul(m[5], FSub(FMul(m[8], m[15]), FMul(m[11], m[12])))), FMul(m[7], FSub(FMul(m[8], m[13]), FMul(m[9], m[12]))))) IN
    LET t3 ==
            FMul(m[3], FAdd(FSub(FMul(m[4], FSub(FMul(m[9], m[14]), FMul(m[10], m[13]))), FMul(m[5], FSub(FMul(m[8], m[14]), FMul(m[10], m[12])))), FMul(m[6], FSub(FMul(m[8], m[13]), FMul(m[9], m[12]))))) IN
    FSub(FAdd(FSub(FAdd(F(0), t0), t1), t2), t3)

\* A faulty variant of inverse(): the cofactor matrix is not transposed.
Mat4_inverse_untransposed(m) ==
    LET det == Mat4_determinant(m)
    IN  IF FEq(det, F(0)) THEN m
        ELSE LET cofactor_matrix == Mat4_cofactor(m)
             IN  [n \in 0..15 |-> FDiv(cofactor_matrix[n], det)]

\* A faulty variant of inverse(): the determinant is not tested against 0.
Mat4_inverse_unguarded(m) ==
    LET det == Mat4_determinant(m)
        transpose_matrix == Mat4_transpose(Mat4_cofactor(m))
    IN  [n \in 0..15 |-> FDiv(transpose_matrix[n], det)]

Mat4_inverse(m) ==
    LET det == Mat4_determinant(m)
    IN  IF FEq(det, F(0)) THEN m
        ELSE LET transpose_matrix == Mat4_transpose(Mat4_cofactor(m))
             IN  [n \in 0..15 |-> FDiv(transpose_matrix[n], det)]

\* A faulty variant of translate(): the translation is scaled by the diagonal,
\* as a product with a translation matrix would.
Mat4_translate_scaled(m, translation) ==
    [m EXCEPT ![12] = FAdd(m[12], FMul(m[0], translation.x)),
              ![13] = FAdd(m[13], FMul(m[5], translation.y)),
              ![14] = FAdd(m[14], FMul(m[10], translation.z))]

\* translate(translation): the matrix afterwards.
Mat4_translate(m, translation) ==
    [m EXCEPT ![12] = FAdd(m[12], translation.x),
              ![13] = FAdd(m[13], translation.y),
              ![14] = FAdd(m[14], translation.z)]

\* A faulty variant of scale(): the three columns are scaled whole.
Mat4_scale_columns(m, scale) ==
    [n \in 0..15 |->
        IF n < 4 THEN FMul(m[n], scale.x)
        ELSE IF n < 8 THEN FMul(m[n], scale.y)
        ELSE IF n < 12 THEN FMul(m[n], scale.z)
        ELSE m[n]]

\* scale(scale): the matrix afterwards.
Mat4_scale(m, scale) ==
    [m EXCEPT ![0] = FMul(m[0], scale.x),
              ![5] = FMul(m[5], scale.y),
              ![10] = FMul(m[10], scale.z)]

\* A faulty variant of operator*(const Mat4 &): other is read by rows where
\* the code reads it by columns of the flat array.
Mat4_mul_other_rowwise(this, other) ==
    [n \in 0..15 |->
        LET i == n \div 4
            j == n % 4
        IN  FAdd(FAdd(FAdd(FMul(this[i * 4 + 0], other[j * 4 + 0]),
                           FMul(this[i * 4 + 1], other[j * 4 + 1])),
                      FMul(this[i * 4 + 2], other[j * 4 + 2])),
                 FMul(this[i * 4 + 3], other[j * 4 + 3]))]

\* operator*(const Mat4 &)
Mat4_mul(this, other) ==
    [n \in 0..15 |->
        LET i == n \div 4
            j == n % 4
        IN  FAdd(FAdd(FAdd(FMul(this[i * 4 + 0], other[j + 0]),
                           FMul(this[i * 4 + 1], other[j + 4])),
                      FMul(this[i * 4 + 2], other[j + 8])),
                 FMul(this[i * 4 + 3], other[j + 12]))]

\* A faulty variant of operator*(const Vec4 &): data is read row by row.
Mat4_mul_Vec4_rowwise(m, other) ==
    Vec4(FAdd(FAdd(FAdd(FMul(m[0], other.x), FMul(m[1], other.y)), FMul(m[2], other.z)), FMul(m[3], other.w)),
         FAdd(FAdd(FAdd(FMul(m[4], other.x), FMul(m[5], other.y)), FMul(m[6], other.z)), FMul(m[7], other.w)),
         FAdd(FAdd(FAdd(FMul(m[8], other.x), FMul(m[9], other.y)), FMul(m[10], other.z)), FMul(m[11], other.w)),
         FAdd(FAdd(FAdd(FMul(m[12], other.x), FMul(m[13], other.y)), FMul(m[14], other.z)), FMul(m[15], other.w)))

\* operator*(const Vec4 &)
Mat4_mul_Vec4(m, other) ==
    Vec4(FAdd(FAdd(FAdd(FMul(m[0], other.x), FMul(m[4], other.y)), FMul(m[8], other.z)), FMul(m[12], other.w)),
         FAdd(FAdd(FAdd(FMul(m[1], other.x), FMul(m[5], other.y)), FMul(m[9], other.z)), FMul(m[13], other.w)),
         FAdd(FAdd(FAdd(FMul(m[2], other.x), FMul(m[6], other.y)), FMul(m[10], other.z)), FMul(m[14], other.w)),
         FAdd(FAdd(FAdd(FMul(m[3], other.x), FMul(m[7], other.y)), FMul(m[11], other.z)), FMul(m[15], other.w)))

\* Quat::to_mat4()
Quat_to_mat4(q) ==
    LET i == q.i
        j == q.j
        k == q.k
        r == q.r
        two(a, b) == FMul(FMul(F(2), a), b)
    IN  Mat4(<<FSub(FSub(F(1), two(j, j)), two(k, k)),
               FSub(two(i, j), two(k, r)),
               FAdd(two(i, k), two(j, r)),
               F(0),
               FAdd(two(i, j), two(k, r)),
               FSub(FSub(F(1), two(i, i)), two(k, k)),
               FSub(two(j, k), two(i, r)),
               F(0),
               FSub(two(i, k), two(j, r)),
               FAdd(two(j, k), two(i, r)),
               FSub(FSub(F(1), two(i, i)), two(j, j)),
               F(0),
               F(0),
               F(0),
               F(0),
               F(1)>>)

\* rotate(rotation): the matrix afterwards.
Mat4_rotate(m, rotation) ==
    LET rotation_matrix == Quat_to_mat4(rotation)
    IN  Mat4_mul(rotation_matrix, m)

\* A faulty variant of ortho(): data[10] has lost its minus sign.
Mat4_ortho_unsigned(left, right, bottom, top, near, far) ==
    [Mat4_identity EXCEPT
        ![0] = FDiv(F(2), FSub(right, left)),
        ![5] = FDiv(F(2), FSub(top, bottom)),
        ![10] = FDiv(F(2), FSub(far, near)),
        ![12] = FDiv(FNeg(FAdd(right, left)), FSub(right, left)),
        ![13] = FDiv(FNeg(FAdd(top, bottom)), FSub(top, bottom)),
        ![14] = FDiv(FNeg(FAdd(far, near)), FSub(far, near))]

Mat4_ortho(left, right, bottom, top, near, far) ==
    [Mat4_identity EXCEPT
        ![0] = FDiv(F(2), FSub(right, left)),
        ![5] = FDiv(F(2), FSub(top, bottom)),
        ![10] = FDiv(F(-2), FSub(far, near)),
        ![12] = FDiv(FNeg(FAdd(right, left)), FSub(right, left)),
        ![13] = FDiv(FNeg(FAdd(top, bottom)), FSub(top, bottom)),
        ![14] = FDiv(FNeg(FAdd(far, near)), FSub(far, near))]

\* perspective(fov, aspect, near, far): fov is an angle.
Mat4_perspective(fov, aspect, near, far) ==
    LET s == FDiv(F(1), TanHalf(fov))
    IN  [Mat4_identity EXCEPT
            ![0] = FDiv(s, aspect),
            ![5] = s,
            ![10] = FDiv(FNeg(far), FSub(far, near)),
            ![14] = FDiv(FNeg(FMul(far, near)), FSub(far, near)),
            ![11] = F(-1),
            ![15] = F(0)]

(***************************************************************************)
(* The client.  m is its Mat4, q its Quat; call records the last call it    *)
(* made: the operation, the receiver before the call, the argument and the  *)
(* value returned.  nops counts the mutators applied to the receiver since  *)
(* it was constructed.  A client constructs its object, applies mutators   *)
(* to it and then uses it in one query (a call that returns a value and     *)
(* leaves the receiver alone).                                              *)
(***************************************************************************)
\* m, q, call, nops: the state of a client of the math classes.
\* pc, local, heap, android, env: the state of a program that runs an
\* application: the position and the local variables of its main thread, the
\* objects it has allocated, its struct android_app, and the events its
\* platform has yet to deliver.
VARIABLES m, q, call, nops, pc, local, heap, android, env

math == <<m, q, call, nops>>
platform == <<pc, local, heap, android, env>>
vars == <<m, q, call, nops, pc, local, heap, android, env>>

None == <<>>
Call(op, self, arg, ret) == [op |-> op, self |-> self, arg |-> arg, ret |-> ret]

\* The queries: the client has used the object it built.
Queries ==
    {"mul", "mulvec", "inverse", "determinant", "to_mat4", "quat_mul_vec3",
     "quat_inverse", "slerp", "quat_mul_vec4",
     "to_mat4_of_product"}
Building == call.op \notin Queries
\* The client has made no call yet.
Fresh == call.op = "none"

Coords == -MaxCoord..MaxCoord

\* The inputs the client draws its arguments from.
UnitX == Vec3(F(1), F(0), F(0))
UnitY == Vec3(F(0), F(1), F(0))
UnitZ == Vec3(F(0), F(0), F(1))
Axes == {UnitX, UnitY, UnitZ}
Angles == {AngleZero, AngleQuarter, AngleHalfTurn, AngleMinusQuarter, AngleAtan43}
Vec3Pool == {UnitX, UnitY, UnitZ, Vec3(F(1), F(MaxCoord), F(-1))}
Vec4Pool == {Vec4(v.x, v.y, v.z, F(w)) : v \in Vec3Pool, w \in {0, 1}}
\* Every Vec3 and every point or direction Vec4 with coordinates in Coords.
AllVec3 == {Vec3(F(x), F(y), F(z)) : x \in Coords, y \in Coords, z \in Coords}
\* The Vec3 with coordinates 0 and 1: the basis vectors and their sums.
Vec3Lattice == {Vec3(F(x), F(y), F(z)) : x \in {0, 1}, y \in {0, 1}, z \in {0, 1}}
AllVec4 == {Vec4(v.x, v.y, v.z, F(w)) : v \in AllVec3, w \in {0, 1}}
Translations == {Vec3(F(1), F(MaxCoord), F(-1)), Vec3(F(0), F(0), F(MaxCoord))}
Scales == {Vec3(F(2), F(2), F(2)), Vec3(F(1), F(0), F(-1)), Vec3(F(-1), F(MaxCoord), Frac(1, 2))}
Rotations ==
    {Quat_from_axis_angle(UnitZ, AngleQuarter),
     Quat(Frac(1, 2), Frac(1, 2), Frac(1, 2), Frac(1, 2)),
     Quat_from_axis_angle(UnitX, AngleMinusQuarter)}
\* A singular matrix, an invertible one with no symmetry, a translation, and
\* the diagonal matrix of 2.
MatArgsPool ==
    {<<F(1), F(2), F(0), F(1), F(2), F(4), F(0), F(2),
       F(0), F(1), F(1), F(0), F(1), F(0), F(2), F(1)>>,
     <<F(2), F(0), F(1), F(0), F(1), F(1), F(0), F(0),
       F(0), F(3), F(1), F(1), F(1), F(0), F(0), F(2)>>,
     <<F(1), F(0), F(0), F(0), F(0), F(1), F(0), F(0),
       F(0), F(0), F(1), F(0), F(3), F(-1), F(2), F(1)>>,
     <<F(2), F(0), F(0), F(0), F(0), F(2), F(0), F(0),
       F(0), F(0), F(2), F(0), F(0), F(0), F(0), F(2)>>}
\* The rotations and a quaternion that is not normalized.
Quats == Rotations \cup {Quat(F(1), F(0), F(1), F(-1))}
\* The operands of slerp: the identity and its opposite, quaternions at a
\* right angle, at 60 and at 120 degrees to each other, one that is not
\* normalized, and as second operand one within 3e-8 of the identity.
NearIdentity == Quat(F(0), F(0), F(0), Norm(-18601, 13860, 1000))
SlerpFrom ==
    {Quat_default, Quat(F(0), F(0), F(0), F(-1)), Quat(F(1), F(0), F(0), F(0)),
     Quat(Frac(1, 2), Frac(1, 2), Frac(1, 2), Frac(1, 2)),
     Quat(F(0), F(0), HalfSqrt2, HalfSqrt2), Quat(F(1), F(0), F(1), F(-1))}
SlerpTo ==
    SlerpFrom \cup {NearIdentity, Quat(Frac(-1, 2), Frac(-1, 2), Frac(-1, 2), Frac(1, 2))}
SlerpTimes == {F(0), Frac(1, 2), F(1)}
\* Unit axes, one of them diagonal, and an axis that is not normalized.
AxisPool == Axes \cup {Vec3(HalfSqrt2, HalfSqrt2, F(0)), Vec3(F(1), F(MaxCoord), F(-1))}
Fovs == {AngleQuarter, AngleAtan43, AngleAtan34}
Aspects == {F(1), F(2), Frac(4, 3)}
MatPool == {Mat4(a) : a \in MatArgsPool} \cup {Mat4_identity}
\* The clients of the math classes run no application.
NoPlatform ==
    /\ pc = "none"
    /\ local = None
    /\ heap = <<>>
    /\ android = None
    /\ env = None

Init ==
    /\ m = Mat4_default
    /\ q = Quat_default
    /\ call = Call("none", None, None, None)
    /\ nops = 0
    /\ NoPlatform

(***************************************************************************)
(* A client of Mat4.                                                        *)
(***************************************************************************)
\* m = Mat4::identity();
Identity ==
    /\ Fresh
    /\ m' = Mat4_identity
    /\ call' = Call("identity", None, None, Mat4_identity)
    /\ nops' = 0
    /\ UNCHANGED q
    /\ UNCHANGED platform

\* m = Mat4(m00, ..., m33);
Construct(args) ==
    /\ Fresh
    /\ m' = Mat4(args)
    /\ call' = Call("Mat4", None, args, Mat4(args))
    /\ nops' = 0
    /\ UNCHANGED q
    /\ UNCHANGED platform

\* m.translate(translation);
Translate(translation) ==
    /\ Building
    /\ nops < MaxOps
    /\ m' = Mat4_translate(m, translation)
    /\ call' = Call("translate", m, translation, None)
    /\ nops' = nops + 1
    /\ UNCHANGED q
    /\ UNCHANGED platform

\* m.scale(scale);
Scale(scale) ==
    /\ Building
    /\ nops < MaxOps
    /\ m' = Mat4_scale(m, scale)
    /\ call' = Call("scale", m, scale, None)
    /\ nops' = nops + 1
    /\ UNCHANGED q
    /\ UNCHANGED platform

\* m.rotate(rotation);
Rotate(rotation) ==
    /\ Building
    /\ nops < MaxOps
    /\ m' = Mat4_rotate(m, rotation)
    /\ call' = Call("rotate", m, rotation, None)
    /\ nops' = nops + 1
    /\ UNCHANGED q
    /\ UNCHANGED platform

\* m * other
Mul(other) ==
    /\ Building
    /\ call' = Call("mul", m, other, Mat4_mul(m, other))
    /\ UNCHANGED <<m, q, nops>>
    /\ UNCHANGED platform

\* m * v
MulVec(v) ==
    /\ Building
    /\ call' = Call("mulvec", m, v, Mat4_mul_Vec4(m, v))
    /\ UNCHANGED <<m, q, nops>>
    /\ UNCHANGED platform

\* m.inverse()
Inverse ==
    /\ Building
    /\ call' = Call("inverse", m, None, Mat4_inverse(m))
    /\ UNCHANGED <<m, q, nops>>
    /\ UNCHANGED platform

\* m.determinant()
Determinant ==
    /\ Building
    /\ call' = Call("determinant", m, None, Mat4_determinant(m))
    /\ UNCHANGED <<m, q, nops>>
    /\ UNCHANGED platform

Next ==
    \/ Identity
    \/ \E args \in MatArgsPool : Construct(args)
    \/ \E t \in Translations : Translate(t)
    \/ \E s \in Scales : Scale(s)
    \/ \E r \in Rotations : Rotate(r)
    \/ \E other \in MatPool : Mul(other)
    \/ \E v \in Vec4Pool : MulVec(v)
    \/ Inverse
    \/ Determinant

Spec == Init /\ [][Next]_vars

(***************************************************************************)
(* A client that builds one projection matrix.  It starts with the planes   *)
(* of its view volume chosen, held in call.arg.                             *)
(***************************************************************************)
Box(left, right, bottom, top, near, far) ==
    [left |-> left, right |-> right, bottom |-> bottom, top |-> top,
     near |-> near, far |-> far]

InitProj ==
    /\ m = Mat4_default
    /\ q = Quat_default
    /\ nops = 0
    /\ \E left, right, bottom, top, near, far \in Coords :
           call = Call("none", None,
                       Box(F(left), F(right), F(bottom), F(top), F(near), F(far)), None)
    /\ NoPlatform

\* m = Mat4::ortho(left, right, bottom, top, near, far);
Ortho ==
    /\ Fresh
    /\ m' = Mat4_ortho(call.arg.left, call.arg.right, call.arg.bottom,
                       call.arg.top, call.arg.near, call.arg.far)
    /\ call' = Call("ortho", None, call.arg, m')
    /\ UNCHANGED <<q, nops>>
    /\ UNCHANGED platform

\* m = Mat4::perspective(fov, aspect, near, far);
Perspective(fov, aspect) ==
    /\ Fresh
    /\ m' = Mat4_perspective(fov, aspect, call.arg.near, call.arg.far)
    /\ call' = Call("perspective", None,
                    [fov |-> fov, aspect |-> aspect,
                     near |-> call.arg.near, far |-> call.arg.far], m')
    /\ UNCHANGED <<q, nops>>
    /\ UNCHANGED platform

NextProj ==
    \/ Ortho
    \/ \E fov \in Fovs, aspect \in Aspects : Perspective(fov, aspect)

SpecProj == InitProj /\ [][NextProj]_vars

(***************************************************************************)
(* A client of Quat.                                                        *)
(***************************************************************************)
\* q = Quat::from_axis_angle(axis, angle);
FromAxisAngle(axis, angle) ==
    /\ Fresh
    /\ q' = Quat_from_axis_angle(axis, angle)
    /\ call' = Call("from_axis_angle", None, [axis |-> axis, angle |-> angle], q')
    /\ nops' = 0
    /\ UNCHANGED m
    /\ UNCHANGED platform

\* q = Quat::from_euler(euler);
FromEuler(euler) ==
    /\ Fresh
    /\ q' = Quat_from_euler(euler)
    /\ call' = Call("from_euler", None, euler, q')
    /\ nops' = 0
    /\ UNCHANGED m
    /\ UNCHANGED platform

\* q *= other;
QuatMulAssign(other) ==
    /\ Building
    /\ nops < MaxOps
    /\ q' = Quat_mul(q, other)
    /\ call' = Call("quat_mul_assign", q, other, q')
    /\ nops' = nops + 1
    /\ UNCHANGED m
    /\ UNCHANGED platform

\* q.to_mat4()
ToMat4 ==
    /\ Building
    /\ call' = Call("to_mat4", q, None, Quat_to_mat4(q))
    /\ UNCHANGED <<m, q, nops>>
    /\ UNCHANGED platform

\* (q * other).to_mat4()
ToMat4OfProduct(other) ==
    /\ Building
    /\ call' = Call("to_mat4_of_product", q, other, Quat_to_mat4(Quat_mul(q, other)))
    /\ UNCHANGED <<m, q, nops>>
    /\ UNCHANGED platform

\* q * v, v a Vec3
QuatMulVec3(v) ==
    /\ Building
    /\ call' = Call("quat_mul_vec3", q, v, Quat_mul_Vec3(q, v))
    /\ UNCHANGED <<m, q, nops>>
    /\ UNCHANGED platform

\* q * v, v a Vec4
QuatMulVec4(v) ==
    /\ Building
    /\ call' = Call("quat_mul_vec4", q, v, Quat_mul_Vec4(q, v))
    /\ UNCHANGED <<m, q, nops>>
    /\ UNCHANGED platform

\* q.inverse()
QuatInverse ==
    /\ Building
    /\ call' = Call("quat_inverse", q, None, Quat_inverse(q))
    /\ UNCHANGED <<m, q, nops>>
    /\ UNCHANGED platform

\* The model has the exact result of slerp(a, b, t): a return before the
\* ratios on every build, or ratios that are values (a + b*sqrt(2))/d.
SlerpExact(a, b, t) ==
    LET c == Quat_dot(a, b)
    IN  \/ FGe(FAbs(c), F(1))
        \/ SqrtLt(FSub(F(1), FMul(c, c)), SlerpEpsilon)
        \/ t \in {F(0), F(1)}
        \/ HasSqrt(FMul(F(2), FAdd(F(1), c)))

\* Quat::slerp(a, b, t)
Slerp(a, b, t, int_abs) ==
    /\ Fresh
    /\ SlerpExact(a, b, t)
    /\ call' = Call("slerp", a, [b |-> b, t |-> t, int_abs |-> int_abs],
                    Quat_slerp(a, b, t, int_abs))
    /\ UNCHANGED <<m, q, nops>>
    /\ UNCHANGED platform

NextQuat ==
    \/ \E axis \in AxisPool, angle \in Angles : FromAxisAngle(axis, angle)
    \/ \E x, y, z \in Angles : FromEuler(Vec3(x, y, z))
    \/ \E other \in Quats : QuatMulAssign(other)
    \/ ToMat4
    \/ \E other \in Quats : ToMat4OfProduct(other)
    \/ \E v \in Vec3Pool : QuatMulVec3(v)
    \/ \E w \in {F(0), Frac(1, 2)} : QuatMulVec4(Vec4(F(1), F(MaxCoord), F(-1), w))
    \/ QuatInverse
    \/ \E a \in SlerpFrom, b \in SlerpTo, t \in SlerpTimes, int_abs \in BOOLEAN :
           Slerp(a, b, t, int_abs)

SpecQuat == Init /\ [][NextQuat]_vars

(***************************************************************************)
(* A client of Vec3.  It starts with a vector chosen, held in call.self.    *)
(***************************************************************************)
\* The second operands: every Vec3 of integers, and one that has none.
Vec3Others == AllVec3 \cup {Vec3(HalfSqrt2, Frac(1, 2), F(-1))}

InitVec ==
    /\ m = Mat4_default
    /\ q = Quat_default
    /\ nops = 0
    /\ \E a \in AllVec3 : call = Call("none", a, None, None)
    /\ NoPlatform

\* call.self.cross(other)
Cross(other) ==
    /\ Fresh
    /\ call' = Call("cross", call.self, other, Vec3_cross(call.self, other))
    /\ UNCHANGED <<m, q, nops>>
    /\ UNCHANGED platform

\* Vec2(call.self.x, call.self.y).normalize()
Normalize2 ==
    /\ Fresh
    /\ LET v == Vec2(call.self.x, call.self.y)
       IN  /\ HasSqrt(Vec2_dot(v, v))
           /\ call' = Call("vec2_normalize", v, None, Vec2_normalize(v))
    /\ UNCHANGED <<m, q, nops>>
    /\ UNCHANGED platform

\* call.self.normalize()
Normalize ==
    /\ Fresh
    /\ HasSqrt(Vec3_dot(call.self, call.self))
    /\ call' = Call("normalize", call.self, None, Vec3_normalize(call.self))
    /\ UNCHANGED <<m, q, nops>>
    /\ UNCHANGED platform

\* Vec4(call.self.x, call.self.y, call.self.z, w).normalize()
Normalize4(w) ==
    /\ Fresh
    /\ LET v == Vec4(call.self.x, call.self.y, call.self.z, w)
       IN  /\ HasSqrt(Vec4_dot(v, v))
           /\ call' = Call("vec4_normalize", v, None, Vec4_normalize(v))
    /\ UNCHANGED <<m, q, nops>>
    /\ UNCHANGED platform

\* Quat(call.self.x, call.self.y, call.self.z, r).normalize()
QuatNormalize(r) ==
    /\ Fresh
    /\ LET a == Quat(call.self.x, call.self.y, call.self.z, r)
       IN  /\ HasSqrt(Quat_norm2(a))
           /\ call' = Call("quat_normalize", a, None, Quat_normalize(a))
    /\ UNCHANGED <<m, q, nops>>
    /\ UNCHANGED platform

\* sqrt(x) is a value of the model: x has a root (a + b*sqrt(2))/d, or the
\* root is NaN or an infinity.
Rootable(x) == ~IsFinite(x) \/ Sign(x) < 0 \/ HasSqrt(x)

\* The model has the exact result of look_at(from, to, up): each of its four
\* roots is a value of the model.
LookAtExact(from, to, up) ==
    /\ Rootable(Vec3_dot(Vec3_sub(to, from), Vec3_sub(to, from)))
    /\ LET c == Vec3_cross(LookAt_forward(from, to), up)
       IN  Rootable(Vec3_dot(c, c))
    /\ LET c == Vec3_cross(LookAt_right(from, to, up), LookAt_forward(from, to))
       IN  Rootable(Vec3_dot(c, c))
    /\ Rootable(LookAt_trace(from, to, up))

\* Quat::look_at(call.self, to, up)
LookAt(to, up) ==
    /\ Fresh
    /\ LookAtExact(call.self, to, up)
    /\ call' = Call("look_at", call.self, [to |-> to, up |-> up],
                    Quat_look_at(call.self, to, up))
    /\ UNCHANGED <<m, q, nops>>
    /\ UNCHANGED platform

\* What a member that was never written may hold.
Indeterminate == {F(c) : c \in Coords} \cup {NaN}

\* Vec4(call.self, w)
ConstructVec4(w) ==
    /\ Fresh
    /\ \E indeterminate \in Indeterminate :
           call' = Call("vec4_from_vec3", call.self, w,
                        Vec4_from_Vec3(call.self, w, indeterminate))
    /\ UNCHANGED <<m, q, nops>>
    /\ UNCHANGED platform

NextVec ==
    \/ \E other \in Vec3Others : Cross(other)
    \/ Normalize2
    \/ Normalize
    \/ \E w \in Coords : Normalize4(F(w))
    \/ \E r \in Coords : QuatNormalize(F(r))
    \/ \E w \in {F(0), F(1)} : ConstructVec4(w)
    \/ \E to \in Vec3Pool \cup {Vec3_neg(UnitZ)}, up \in {UnitY, UnitZ} : LookAt(to, up)

SpecVec == InitVec /\ [][NextVec]_vars

(***************************************************************************)
(* A client of Mat4 that starts from Mat4::identity(), calls translate and  *)
(* scale, and keeps in call.arg the log of its calls.                       *)
(***************************************************************************)
InitLog ==
    /\ m = Mat4_identity
    /\ q = Quat_default
    /\ call = Call("identity", None, <<>>, None)
    /\ nops = 0
    /\ NoPlatform

Logging == call.op \in {"identity", "logged"}

\* m.translate(translation);
LoggedTranslate(translation) ==
    /\ Logging
    /\ nops < MaxSteps
    /\ m' = Mat4_translate(m, translation)
    /\ call' = Call("logged", None,
                    Append(call.arg, [kind |-> "translate", v |-> translation]), None)
    /\ nops' = nops + 1
    /\ UNCHANGED q
    /\ UNCHANGED platform

\* m.scale(scale);
LoggedScale(scale) ==
    /\ Logging
    /\ nops < MaxSteps
    /\ m' = Mat4_scale(m, scale)
    /\ call' = Call("logged", None, Append(call.arg, [kind |-> "scale", v |-> scale]), None)
    /\ nops' = nops + 1
    /\ UNCHANGED q
    /\ UNCHANGED platform

\* m * Vec4(p.x, p.y, p.z, 1.0f)
LoggedMulVec(p) ==
    /\ Logging
    /\ call' = Call("logged_mulvec", p, call.arg,
                    Mat4_mul_Vec4(m, Vec4(p.x, p.y, p.z, F(1))))
    /\ UNCHANGED <<m, q, nops>>
    /\ UNCHANGED platform

NextLog ==
    \/ \E t \in Translations : LoggedTranslate(t)
    \/ \E s \in Scales : LoggedScale(s)
    \/ \E p \in Vec3Pool : LoggedMulVec(p)

SpecLog == InitLog /\ [][NextLog]_vars

(***************************************************************************)
(* The programs that run an application.  The math state stays as           *)
(* constructed.  An object of the heap is a record whose field live says    *)
(* whether the object has been deleted; its address is its index.           *)
(***************************************************************************)
nullptr == 0
APP_CMD_INIT_WINDOW == "APP_CMD_INIT_WINDOW"
APP_CMD_TERM_WINDOW == "APP_CMD_TERM_WINDOW"
APP_CMD_DESTROY == "APP_CMD_DESTROY"
AppCmds == {APP_CMD_INIT_WINDOW, APP_CMD_TERM_WINDOW, APP_CMD_DESTROY}

\* The sequences of app commands of an activity: nothing follows
\* APP_CMD_DESTROY.
CmdScripts ==
    {s \in UNION {[1..n -> AppCmds] : n \in 0..MaxCmds} :
        \A i \in 1..Len(s) : s[i] = APP_CMD_DESTROY => i = Len(s)}

NoMath ==
    /\ m = Mat4_default
    /\ q = Quat_default
    /\ call = Call("none", None, None, None)
    /\ nops = 0

\* process() of the native app glue, for a command: it sets destroyRequested
\* on APP_CMD_DESTROY, then calls onAppCmd.
PreExecCmd(a, cmd) ==
    IF cmd = APP_CMD_DESTROY THEN [a EXCEPT !.destroyRequested = 1] ELSE a

(***************************************************************************)
(* CLAY_RUN(APP) on Android: _handle_cmd and android_main.                  *)
(***************************************************************************)
\* _handle_cmd(app, cmd): the heap and the struct android_app after it.
handle_cmd(h, a, cmd) ==
    CASE cmd = APP_CMD_INIT_WINDOW ->
             [heap |-> Append(h, [live |-> TRUE]),
              android |-> [a EXCEPT !.userData = Len(h) + 1]]
      [] cmd = APP_CMD_TERM_WINDOW ->
             [heap |-> h, android |-> a]
      [] cmd = APP_CMD_DESTROY ->
             [heap |-> IF a.userData = nullptr THEN h
                       ELSE [h EXCEPT ![a.userData].live = FALSE],
              android |-> a]

InitRun ==
    /\ NoMath
    /\ pc = "poll"
    /\ local = None
    /\ heap = <<>>
    /\ android = [userData |-> nullptr, destroyRequested |-> 0]
    /\ env \in CmdScripts

\* ALooper_pollAll(...) >= 0, and pSource->process(app, pSource);
RunProcess ==
    /\ pc = "poll"
    /\ env # <<>>
    /\ LET after == handle_cmd(heap, PreExecCmd(android, Head(env)), Head(env))
       IN  /\ heap' = after.heap
           /\ android' = after.android
    /\ env' = Tail(env)
    /\ UNCHANGED <<pc, local>>
    /\ UNCHANGED math

\* ALooper_pollAll(...) < 0: no event is waiting.
RunPollEnds ==
    /\ pc = "poll"
    /\ pc' = "test"
    /\ UNCHANGED <<local, heap, android, env>>
    /\ UNCHANGED math

\* if (app->userData != nullptr)
RunTest ==
    /\ pc = "test"
    /\ pc' = IF android.userData # nullptr THEN "update" ELSE "while"
    /\ UNCHANGED <<local, heap, android, env>>
    /\ UNCHANGED math

\* ((APP *)(app->userData))->update(); on a deleted object the behaviour is
\* undefined: the call returns or the program crashes.
RunUpdate ==
    /\ pc = "update"
    /\ \/ pc' = "while"
       \/ ~heap[android.userData].live /\ pc' = "crashed"
    /\ UNCHANGED <<local, heap, android, env>>
    /\ UNCHANGED math

\* while (app->destroyRequested == 0);
RunWhile ==
    /\ pc = "while"
    /\ pc' = IF android.destroyRequested = 0 THEN "poll" ELSE "returned"
    /\ UNCHANGED <<local, heap, android, env>>
    /\ UNCHANGED math

NextRun ==
    \/ RunProcess
    \/ RunPollEnds
    \/ RunTest
    \/ RunUpdate
    \/ RunWhile

SpecRun == InitRun /\ [][NextRun]_vars

(***************************************************************************)
(* main_android.cc: cmd and android_main, with Window::update of Android.  *)
(* local.window is the variable window of android_main, and the this of    *)
(* the Window::update it calls.                                             *)
(***************************************************************************)
\* cmd(app, cmd): the heap and the struct android_app after it.  The window
\* that Window::create returns has is_quit == false.
cmd(h, a, c) ==
    CASE c = APP_CMD_INIT_WINDOW ->
             [heap |-> Append(h, [live |-> TRUE, is_quit |-> FALSE]),
              android |-> [a EXCEPT !.userData = Len(h) + 1]]
      [] c = APP_CMD_TERM_WINDOW ->
             [heap |-> h, android |-> a]
      [] c = APP_CMD_DESTROY ->
             [heap |-> IF a.userData = nullptr THEN h
                       ELSE [h EXCEPT ![a.userData].live = FALSE],
              android |-> a]

InitMain ==
    /\ NoMath
    /\ pc = "top"
    /\ local = [window |-> nullptr]
    /\ heap = <<>>
    /\ android = [userData |-> nullptr, destroyRequested |-> 0]
    /\ env \in CmdScripts

\* The outcomes of a step that uses *local.window: the one the code gives
\* while the object is alive, and after its deletion that one or a crash.
Uses(next) ==
    \/ pc' = next
    \/ ~heap[local.window].live /\ pc' = "crashed"

\* if (app->userData != nullptr) { clay::Window *window = ...
MainTest ==
    /\ pc = "top"
    /\ IF android.userData # nullptr
       THEN pc' = "is_open" /\ local' = [window |-> android.userData]
       ELSE pc' = "idle" /\ UNCHANGED local
    /\ UNCHANGED <<heap, android, env>>
    /\ UNCHANGED math

\* if (window->is_open()); a deleted window gives either answer.
MainIsOpen ==
    /\ pc = "is_open"
    /\ \/ Uses(IF heap[local.window].is_quit THEN "while" ELSE "update")
       \/ ~heap[local.window].live /\ pc' \in {"while", "update"}
    /\ UNCHANGED <<local, heap, android, env>>
    /\ UNCHANGED math

\* window->update(), to its loop: eglSwapBuffers, eglQuerySurface, glViewport
MainUpdate ==
    /\ pc = "update"
    /\ Uses("polling")
    /\ UNCHANGED <<local, heap, android, env>>
    /\ UNCHANGED math

\* Window::update: ALooper_pollAll(...) >= 0, and source->process(app, source);
MainUpdateProcess ==
    /\ pc = "polling"
    /\ env # <<>>
    /\ LET after == cmd(heap, PreExecCmd(android, Head(env)), Head(env))
       IN  /\ heap' = after.heap
           /\ android' = after.android
    /\ env' = Tail(env)
    /\ UNCHANGED <<pc, local>>
    /\ UNCHANGED math

\* Window::update: ALooper_pollAll(...) < 0
MainUpdatePollEnds ==
    /\ pc = "polling"
    /\ pc' = "set_quit"
    /\ UNCHANGED <<local, heap, android, env>>
    /\ UNCHANGED math

\* Window::update: is_quit = ((android_app *)app)->destroyRequested; glClear
MainUpdateSetsQuit ==
    /\ pc = "set_quit"
    /\ Uses("loop")
    /\ heap' = [heap EXCEPT ![local.window].is_quit = (android.destroyRequested # 0)]
    /\ UNCHANGED <<local, android, env>>
    /\ UNCHANGED math

\* loop(window);
MainLoop ==
    /\ pc = "loop"
    /\ Uses("while")
    /\ UNCHANGED <<local, heap, android, env>>
    /\ UNCHANGED math

\* else: ALooper_pollAll(...) >= 0, and pSource->process(app, pSource);
MainIdleProcess ==
    /\ pc = "idle"
    /\ env # <<>>
    /\ LET after == cmd(heap, PreExecCmd(android, Head(env)), Head(env))
       IN  /\ heap' = after.heap
           /\ android' = after.android
    /\ env' = Tail(env)
    /\ UNCHANGED <<pc, local>>
    /\ UNCHANGED math

\* else: ALooper_pollAll(...) < 0
MainIdlePollEnds ==
    /\ pc = "idle"
    /\ pc' = "while"
    /\ UNCHANGED <<local, heap, android, env>>
    /\ UNCHANGED math

\* while (app->destroyRequested == 0);
MainWhile ==
    /\ pc = "while"
    /\ pc' = IF android.destroyRequested = 0 THEN "top" ELSE "returned"
    /\ UNCHANGED <<local, heap, android, env>>
    /\ UNCHANGED math

NextMain ==
    \/ MainTest
    \/ MainIsOpen
    \/ MainUpdate
    \/ MainUpdateProcess
    \/ MainUpdatePollEnds
    \/ MainUpdateSetsQuit
    \/ MainLoop
    \/ MainIdleProcess
    \/ MainIdlePollEnds
    \/ MainWhile

SpecMain == InitMain /\ [][NextMain]_vars

(***************************************************************************)
(* CLAY_RUN(app) on the desktop: clay::_run with the App of the example,    *)
(* and Window::create and Window::update of the desktop.  local.app is the  *)
(* variable app of _run; the App holds the address of its Window.           *)
(***************************************************************************)
SDL_QUIT == "SDL_QUIT"
SDL_KEYDOWN == "SDL_KEYDOWN"
SdlEvents == {SDL_QUIT, SDL_KEYDOWN}
\* The sequences of events SDL_PollEvent delivers.
EventScripts == UNION {[1..n -> SdlEvents] : n \in 0..MaxCmds}
\* What SDL_GetWindowSize reports: the size the window was created with, or
\* another.
WindowSizes == {"created", "resized"}

\* A faulty variant of the event loop of Window::update: is_quit follows the
\* last event.
Window_on_event_last(w, event) ==
    [w EXCEPT !.is_quit = (event = SDL_QUIT)]

\* Window::update: if (event->type == SDL_QUIT) is_quit = true;
Window_on_event(w, event) ==
    IF event = SDL_QUIT THEN [w EXCEPT !.is_quit = TRUE] ELSE w

\* Window::create: new Window{width, height, window, context, nullptr,
\* nullptr, false, new SDL_Event()}
Window_create ==
    [live |-> TRUE, size |-> "created", is_quit |-> FALSE]

InitDesktop ==
    /\ NoMath
    /\ pc = "new"
    /\ local = [app |-> nullptr]
    /\ heap = <<>>
    /\ android = None
    /\ env \in EventScripts

\* T *app = new T(nullptr); the constructor of App calls Window::create.
DesktopNew ==
    /\ pc = "new"
    /\ heap' = <<[live |-> TRUE, is_running |-> TRUE, window |-> 2], Window_create>>
    /\ local' = [app |-> 1]
    /\ pc' = "while"
    /\ UNCHANGED <<android, env>>
    /\ UNCHANGED math

\* while (app->is_running)
DesktopWhile ==
    /\ pc = "while"
    /\ pc' = IF heap[local.app].is_running THEN "update" ELSE "delete"
    /\ UNCHANGED <<local, heap, android, env>>
    /\ UNCHANGED math

\* app->update(), to the event loop of window->update(): the drawing, then
\* SDL_GL_SwapWindow, SDL_GetWindowSize and the update of width and height.
DesktopUpdate ==
    /\ pc = "update"
    /\ \E size \in WindowSizes :
           heap' = [heap EXCEPT ![heap[local.app].window].size = size]
    /\ pc' = "polling"
    /\ UNCHANGED <<local, android, env>>
    /\ UNCHANGED math

\* Window::update: SDL_PollEvent(event) != 0
DesktopPollEvent ==
    /\ pc = "polling"
    /\ env # <<>>
    /\ LET w == heap[local.app].window
       IN  heap' = [heap EXCEPT ![w] = Window_on_event(heap[w], Head(env))]
    /\ env' = Tail(env)
    /\ UNCHANGED <<pc, local, android>>
    /\ UNCHANGED math

\* Window::update: SDL_PollEvent(event) == 0, glClear, and back in
\* App::update: is_running = window->is_open();
DesktopUpdateReturns ==
    /\ pc = "polling"
    /\ LET w == heap[local.app].window
       IN  heap' = [heap EXCEPT ![local.app].is_running = ~heap[w].is_quit]
    /\ pc' = "while"
    /\ UNCHANGED <<local, android, env>>
    /\ UNCHANGED math

\* delete app;
DesktopDelete ==
    /\ pc = "delete"
    /\ heap' = [heap EXCEPT ![local.app].live = FALSE]
    /\ pc' = "returned"
    /\ UNCHANGED <<local, android, env>>
    /\ UNCHANGED math

NextDesktop ==
    \/ DesktopNew
    \/ DesktopWhile
    \/ DesktopUpdate
    \/ DesktopPollEvent
    \/ DesktopUpdateReturns
    \/ DesktopDelete

SpecDesktop == InitDesktop /\ [][NextDesktop]_vars

\* The main thread is the only one, and nothing it calls blocks: it takes its
\* next step.
SpecDesktopFair == SpecDesktop /\ WF_vars(NextDesktop)

(***************************************************************************)
(* Properties of Mat4, under Spec.                                          *)
(***************************************************************************)
Symmetric(a) == a = Mat4_transpose(a)

\* C1: operator*(Mat4) is the standard product under the column-major
\* convention of operator*(Vec4): (A * B) * v == A * (B * v) for all A, B, v,
\* so A * B applies B first and then A.
C1_ProductAppliesRightOperandFirst ==
    call.op = "mul" =>
        \A v \in AllVec4 :
            Mat4_mul_Vec4(call.ret, v)
                = Mat4_mul_Vec4(call.self, Mat4_mul_Vec4(call.arg, v))

\* C2: when determinant() is not 0, inverse() is the two-sided inverse:
\* M * M.inverse() == identity() and M.inverse() * M == identity(); and
\* identity().inverse() == identity().
C2_InverseIsTwoSided ==
    call.op = "inverse" =>
        /\ ~FEq(Mat4_determinant(call.self), F(0)) =>
               /\ Mat4_mul(call.self, call.ret) = Mat4_identity
               /\ Mat4_mul(call.ret, call.self) = Mat4_identity
        /\ call.self = Mat4_identity => call.ret = Mat4_identity

\* An inverse of an invertible matrix that is neither symmetric nor its own
\* inverse has been taken.
C2_Witness ==
    /\ call.op = "inverse"
    /\ ~FEq(Mat4_determinant(call.self), F(0))
    /\ ~Symmetric(call.self)
    /\ call.ret # call.self
    /\ call.ret # Mat4_transpose(call.self)

\* C3: when determinant() is exactly 0, inverse() returns a matrix whose 16
\* entries are the receiver's; singular or not, inverse() leaves the receiver
\* unchanged.
C3_SingularInverseReturnsCopy ==
    call.op = "inverse" =>
        /\ m = call.self
        /\ FEq(Mat4_determinant(call.self), F(0)) =>
               \A n \in 0..15 : call.ret[n] = call.self[n]

\* inverse() has been called on a singular matrix that is not all zero, and on
\* a matrix that is not singular.
C3_Witness ==
    /\ call.op = "inverse"
    /\ FEq(Mat4_determinant(call.self), F(0))
    /\ call.self # Mat4_default
    /\ \E n \in 0..15 : ~IsZero(call.self[n]) /\ n % 5 # 0

\* C4: identity() is a two-sided identity of operator*(Mat4):
\* identity() * M == M and M * identity() == M, entry by entry.
C4_IdentityIsTwoSided ==
    call.op = "mul" =>
        /\ call.arg = Mat4_identity => call.ret = call.self
        /\ call.self = Mat4_identity => call.ret = call.arg
        /\ Mat4_mul(Mat4_identity, call.self) = call.self

\* A matrix that is not symmetric has been multiplied by identity() on the
\* right, or identity() by such a matrix.
C4_Witness ==
    /\ call.op = "mul"
    /\ \/ call.arg = Mat4_identity /\ ~Symmetric(call.self)
       \/ call.self = Mat4_identity /\ ~Symmetric(call.arg)

\* C6: rotate(q) pre-multiplies, so the rotation is applied after the
\* existing transform: with M0 the matrix before and M1 the matrix after,
\* M1 * v == q.to_mat4() * (M0 * v) for every v.
C6_RotateAppliesRotationLast ==
    call.op = "rotate" =>
        \A v \in AllVec4 :
            Mat4_mul_Vec4(m, v)
                = Mat4_mul_Vec4(Quat_to_mat4(call.arg), Mat4_mul_Vec4(call.self, v))

(***************************************************************************)
(* Properties of the projections, under SpecProj.                           *)
(***************************************************************************)
\* The matrix with the given diagonal and every other entry 0.
Diagonal(d0, d5, d10, d15) ==
    [n \in 0..15 |->
        CASE n = 0 -> d0 [] n = 5 -> d5 [] n = 10 -> d10 [] n = 15 -> d15
          [] OTHER -> F(0)]

UnitBox == Box(F(-1), F(1), F(-1), F(1), F(1), F(-1))

\* C7: ortho(-1, 1, -1, 1, 1, -1) returns the matrix with data[0] = 1,
\* data[5] = 1, data[10] = -1, data[12] = data[13] = data[14] = 0,
\* data[15] = 1 and every other entry 0.
C7_OrthoUnitBoxHasMinusOneAtTen ==
    (call.op = "ortho" /\ call.arg = UnitBox) =>
        call.ret = Diagonal(F(1), F(1), F(-1), F(1))

\* C7, amended: ortho(-1, 1, -1, 1, 1, -1) returns the matrix with
\* data[0] = 1, data[5] = 1, data[10] = 1, data[12] = data[13] = data[14] = 0,
\* data[15] = 1 and every other entry 0, which is identity().
C7_OrthoUnitBoxIsIdentity ==
    (call.op = "ortho" /\ call.arg = UnitBox) =>
        /\ call.ret = Diagonal(F(1), F(1), F(1), F(1))
        /\ call.ret = Mat4_identity

\* ortho(-1, 1, -1, 1, 1, -1) has been called.
C7_Witness == call.op = "ortho" /\ call.arg = UnitBox

\* The planes of an ortho call differ pairwise.
ProperBox(b) ==
    /\ ~FEq(b.left, b.right)
    /\ ~FEq(b.bottom, b.top)
    /\ ~FEq(b.near, b.far)

\* C8: for left != right, bottom != top, near != far, ortho maps the view box
\* onto the NDC cube: ortho * (left, bottom, -near, 1) == (-1, -1, -1, 1) and
\* ortho * (right, top, -far, 1) == (1, 1, 1, 1).
C8_OrthoMapsBoxToCube ==
    (call.op = "ortho" /\ ProperBox(call.arg)) =>
        LET b == call.arg
        IN  /\ Mat4_mul_Vec4(call.ret, Vec4(b.left, b.bottom, FNeg(b.near), F(1)))
                   = Vec4(F(-1), F(-1), F(-1), F(1))
            /\ Mat4_mul_Vec4(call.ret, Vec4(b.right, b.top, FNeg(b.far), F(1)))
                   = Vec4(F(1), F(1), F(1), F(1))

\* ortho has been called with a box that is centred on no axis and is not a
\* cube.
C8_Witness ==
    /\ call.op = "ortho"
    /\ ProperBox(call.arg)
    /\ ~IsZero(FAdd(call.arg.left, call.arg.right))
    /\ ~IsZero(FAdd(call.arg.bottom, call.arg.top))
    /\ ~IsZero(FAdd(call.arg.near, call.arg.far))
    /\ FSub(call.arg.right, call.arg.left) # FSub(call.arg.top, call.arg.bottom)
    /\ FSub(call.arg.far, call.arg.near) # FSub(call.arg.top, call.arg.bottom)

\* C9: perspective(fov, aspect, near, far) with 0 < near < far is the OpenGL
\* projection into the [-1,1] NDC cube: c = perspective * (x, y, z, 1) has
\* c.w == -z, and c.z / c.w == -1 when z == -near, +1 when z == -far.
C9_PerspectiveMapsDepthToMinusOneOne ==
    (call.op = "perspective"
        /\ FLt(F(0), call.arg.near) /\ FLt(call.arg.near, call.arg.far)) =>
        \A x, y \in Coords :
            LET atNear == Mat4_mul_Vec4(call.ret, Vec4(F(x), F(y), FNeg(call.arg.near), F(1)))
                atFar == Mat4_mul_Vec4(call.ret, Vec4(F(x), F(y), FNeg(call.arg.far), F(1)))
            IN  /\ atNear.w = call.arg.near
                /\ atFar.w = call.arg.far
                /\ FDiv(atNear.z, atNear.w) = F(-1)
                /\ FDiv(atFar.z, atFar.w) = F(1)

(***************************************************************************)
(* Properties of Quat, under SpecQuat.                                      *)
(***************************************************************************)
IsUnit(a) == Quat_norm2(a) = F(1)

\* C5: for every unit quaternion q and every Vec3 v, the x, y, z of
\* q.to_mat4() * Vec4(v.x, v.y, v.z, 1) equal q * v.
C5_MatrixRotationAgreesWithQuat ==
    (call.op = "to_mat4" /\ IsUnit(call.self)) =>
        \A v \in AllVec3 :
            LET viaMatrix == Mat4_mul_Vec4(call.ret, Vec4(v.x, v.y, v.z, F(1)))
            IN  Vec3(viaMatrix.x, viaMatrix.y, viaMatrix.z) = Quat_mul_Vec3(call.self, v)

\* The rotations about the three axes that from_euler composes.
Qx(angle) == Quat_from_axis_angle(UnitX, angle)
Qy(angle) == Quat_from_axis_angle(UnitY, angle)
Qz(angle) == Quat_from_axis_angle(UnitZ, angle)

\* C10: from_euler(e) equals the Hamilton product Qz(e.z) * Qy(e.y) * Qx(e.x);
\* rotating a vector by it applies the X rotation first, then Y, then Z.
C10_EulerIsZYX ==
    call.op = "from_euler" =>
        LET e == call.arg
        IN  /\ call.ret = Quat_mul(Quat_mul(Qz(e.z), Qy(e.y)), Qx(e.x))
            /\ \A v \in AllVec3 :
                   Quat_mul_Vec3(call.ret, v)
                       = Quat_mul_Vec3(Qz(e.z), Quat_mul_Vec3(Qy(e.y), Quat_mul_Vec3(Qx(e.x), v)))

\* C10, amended: from_euler(e) equals the Hamilton product
\* Qx(e.x) * Qy(e.y) * Qz(e.z); rotating a vector by it applies the Z
\* rotation first, then Y, then X.
C10_EulerIsXYZ ==
    call.op = "from_euler" =>
        LET e == call.arg
        IN  /\ call.ret = Quat_mul(Quat_mul(Qx(e.x), Qy(e.y)), Qz(e.z))
            /\ \A v \in Vec3Pool :
                   Quat_mul_Vec3(call.ret, v)
                       = Quat_mul_Vec3(Qx(e.x), Quat_mul_Vec3(Qy(e.y), Quat_mul_Vec3(Qz(e.z), v)))

\* from_euler has been called with three different angles, none of them 0,
\* for which the two orders of composition differ.
C10_Witness ==
    /\ call.op = "from_euler"
    /\ call.arg.x # AngleZero /\ call.arg.y # AngleZero /\ call.arg.z # AngleZero
    /\ call.arg.x # call.arg.y /\ call.arg.y # call.arg.z /\ call.arg.x # call.arg.z
    /\ Quat_mul(Quat_mul(Qx(call.arg.x), Qy(call.arg.y)), Qz(call.arg.z))
           # Quat_mul(Quat_mul(Qz(call.arg.z), Qy(call.arg.y)), Qx(call.arg.x))

(***************************************************************************)
(* Properties of Quat products and rotations, under SpecQuat.               *)
(***************************************************************************)
\* C11: the product a * b of two quaternions rotates every Vec3 v as b
\* followed by a: (a * b) * v = a * (b * v).  Both sides are linear in v, so
\* the three basis vectors of Vec3Pool decide it for every v.
C11_ProductRotatesRightOperandFirst ==
    call.op = "quat_mul_assign" =>
        \A v \in Vec3Pool :
            Quat_mul_Vec3(call.ret, v)
                = Quat_mul_Vec3(call.self, Quat_mul_Vec3(call.arg, v))

\* The two operands do not commute, one of them is not normalized, and the
\* order of the two rotations shows on some vector.
C11_Witness ==
    /\ call.op = "quat_mul_assign"
    /\ Quat_mul(call.self, call.arg) # Quat_mul(call.arg, call.self)
    /\ ~IsUnit(call.arg)
    /\ \E v \in Vec3Pool :
           Quat_mul_Vec3(call.self, Quat_mul_Vec3(call.arg, v))
               # Quat_mul_Vec3(call.arg, Quat_mul_Vec3(call.self, v))

\* C12: rotation of a vector by a quaternion is right-handed: the quarter turn
\* about Z takes (1,0,0) to (0,1,0), the quarter turn about X takes (0,1,0) to
\* (0,0,1), and the quarter turn about Y takes (0,0,1) to (1,0,0).
C12_QuarterTurnsAreRightHanded ==
    call.op = "quat_mul_vec3" =>
        /\ (call.self = Quat_from_axis_angle(UnitZ, AngleQuarter) /\ call.arg = UnitX
                => call.ret = UnitY)
        /\ (call.self = Quat_from_axis_angle(UnitX, AngleQuarter) /\ call.arg = UnitY
                => call.ret = UnitZ)
        /\ (call.self = Quat_from_axis_angle(UnitY, AngleQuarter) /\ call.arg = UnitZ
                => call.ret = UnitX)

\* The quarter turn about Z, made by from_axis_angle, has rotated (1,0,0).
C12_Witness ==
    /\ call.op = "quat_mul_vec3"
    /\ nops = 0
    /\ call.self = Quat_from_axis_angle(UnitZ, AngleQuarter)
    /\ call.arg = UnitX

\* C13: rotating a Vec3 by a unit quaternion keeps its squared length.  The
\* two squared lengths are quadratic forms in v, so the basis vectors and
\* their pairwise sums, all in Vec3Lattice, decide it for every v.
C13_UnitRotationKeepsLength ==
    call.op = "quat_mul_vec3" /\ IsUnit(call.self) =>
        /\ \A v \in Vec3Lattice :
               Vec3_length_squared(Quat_mul_Vec3(call.self, v)) = Vec3_length_squared(v)
        /\ call.arg \in Vec3Lattice =>
               Vec3_length_squared(call.ret) = Vec3_length_squared(call.arg)

\* A unit quaternion that is no quarter turn about a coordinate axis has
\* moved a vector off its own line.
C13_Witness ==
    /\ call.op = "quat_mul_vec3"
    /\ IsUnit(call.self)
    /\ \A c \in {call.self.i, call.self.j, call.self.k, call.self.r} : ~IsZero(c)
    /\ call.arg \in Vec3Lattice
    /\ call.ret # call.arg
    /\ call.ret # Vec3_neg(call.arg)

\* C14: for every quaternion q that is not zero, normalized or not,
\* q * q.inverse() and q.inverse() * q are both Quat(0, 0, 0, 1).
C14_InverseIsTwoSided ==
    call.op = "quat_inverse" /\ call.self # Quat(F(0), F(0), F(0), F(0)) =>
        /\ Quat_mul(call.self, call.ret) = Quat(F(0), F(0), F(0), F(1))
        /\ Quat_mul(call.ret, call.self) = Quat(F(0), F(0), F(0), F(1))

\* The inverse of a quaternion that is not normalized and has no zero
\* component has been taken.
C14_Witness ==
    /\ call.op = "quat_inverse"
    /\ ~IsUnit(call.self)
    /\ \A c \in {call.self.i, call.self.j, call.self.k, call.self.r} : ~IsZero(c)
    /\ call.ret # Quat_conjugate(call.self)

\* C15: slerp(a, b, t) returns a, whatever t, when |dot(a, b)| >= 1; so
\* slerp(a, a, t) is a for every unit quaternion a.
C15_SlerpReturnsFirstWhenParallel ==
    call.op = "slerp" =>
        /\ (FGe(FAbs(Quat_dot(call.self, call.arg.b)), F(1)) => call.ret = call.self)
        /\ (IsUnit(call.self) /\ call.arg.b = call.self => call.ret = call.self)

\* slerp of a unit quaternion with its opposite, half way.
C15_Witness ==
    /\ call.op = "slerp"
    /\ IsUnit(call.self)
    /\ call.arg.b = Quat(FNeg(call.self.i), FNeg(call.self.j), FNeg(call.self.k),
                         FNeg(call.self.r))
    /\ call.arg.b # call.self
    /\ call.arg.t = Frac(1, 2)
    /\ call.ret = call.self

\* C16: when |dot(a, b)| < 1 and sqrt(1 - dot(a, b)^2) < 0.001, slerp(a, b, t)
\* is the average (a + b) / 2 of the components: the same for every t, so
\* neither a nor b when these differ, and not normalized again.
C16_SlerpAveragesWhenNearlyParallel ==
    call.op = "slerp" =>
        LET a == call.self
            b == call.arg.b
            c == Quat_dot(a, b)
        IN  FLt(FAbs(c), F(1)) /\ SqrtLt(FSub(F(1), FMul(c, c)), Frac(1, 1000)) =>
                /\ call.ret = Quat_div(Quat(FAdd(a.i, b.i), FAdd(a.j, b.j),
                                            FAdd(a.k, b.k), FAdd(a.r, b.r)), F(2))
                /\ \A t \in SlerpTimes : Quat_slerp(a, b, t, call.arg.int_abs) = call.ret
                /\ (a # b => call.ret # a /\ call.ret # b)

\* slerp from the identity to the quaternion next to it, at t = 0: the
\* result is not the identity and is not a unit quaternion.
C16_Witness ==
    /\ call.op = "slerp"
    /\ call.self = Quat_default
    /\ call.arg.b = NearIdentity
    /\ call.arg.t = F(0)
    /\ FLt(FAbs(Quat_dot(call.self, call.arg.b)), F(1))
    /\ SqrtLt(FSub(F(1), FMul(Quat_dot(call.self, call.arg.b),
                               Quat_dot(call.self, call.arg.b))), Frac(1, 1000))
    /\ call.ret # call.self
    /\ ~IsUnit(call.ret)

(***************************************************************************)
(* Properties of the flat array of Mat4, under Spec.                        *)
(***************************************************************************)
\* The sum over k in 0..n of a[i*4 + k] * b[k*4 + j].
RECURSIVE FlatSum(_, _, _, _, _)
FlatSum(a, b, i, j, n) ==
    IF n = 0 THEN FMul(a[i * 4], b[j])
    ELSE FAdd(FlatSum(a, b, i, j, n - 1), FMul(a[i * 4 + n], b[n * 4 + j]))

\* C17: the product of two Mat4 has, for all i, j in 0..3, at i*4 + j the sum
\* over k in 0..3 of this.data[i*4 + k] * other.data[k*4 + j]; the operands
\* are as they were.
C17_ProductOnFlatArrays ==
    call.op = "mul" =>
        /\ \A i \in 0..3, j \in 0..3 :
               call.ret[i * 4 + j] = FlatSum(call.self, call.arg, i, j, 3)
        /\ m = call.self

\* Two matrices that do not commute, neither of them symmetric, both with
\* entries off the diagonal, have been multiplied.
C17_Witness ==
    /\ call.op = "mul"
    /\ ~Symmetric(call.self)
    /\ ~Symmetric(call.arg)
    /\ call.ret # Mat4_mul(call.arg, call.self)
    /\ call.ret # call.self
    /\ call.ret # call.arg

\* C18: translate(t) adds t.x, t.y, t.z to data[12], data[13], data[14] and
\* scale(s) multiplies data[0], data[5], data[10] by s.x, s.y, s.z; each leaves
\* the other 13 entries as they were.
C18_TranslateAndScaleTouchThreeEntries ==
    /\ call.op = "translate" =>
           /\ m[12] = FAdd(call.self[12], call.arg.x)
           /\ m[13] = FAdd(call.self[13], call.arg.y)
           /\ m[14] = FAdd(call.self[14], call.arg.z)
           /\ \A n \in (0..15) \ {12, 13, 14} : m[n] = call.self[n]
    /\ call.op = "scale" =>
           /\ m[0] = FMul(call.self[0], call.arg.x)
           /\ m[5] = FMul(call.self[5], call.arg.y)
           /\ m[10] = FMul(call.self[10], call.arg.z)
           /\ \A n \in (0..15) \ {0, 5, 10} : m[n] = call.self[n]

\* A matrix with entries off the diagonal has been translated and then
\* scaled, and each of the two calls has changed it.
C18_Witness ==
    /\ call.op = "scale"
    /\ m # call.self
    /\ \E args \in MatArgsPool, t \in Translations :
           /\ call.self = Mat4_translate(Mat4(args), t)
           /\ call.self # Mat4(args)
           /\ ~Symmetric(Mat4(args))

\* The permutations of 0..3 and the number of inversions of one.
Permutations4 == {p \in [0..3 -> 0..3] : \A i, j \in 0..3 : i # j => p[i] # p[j]}
Inversions(p) == Cardinality({ij \in (0..3) \X (0..3) : ij[1] < ij[2] /\ p[ij[1]] > p[ij[2]]})

\* The term of the permutation p in the determinant of a.
LeibnizTerm(a, p) ==
    LET product == FMul(FMul(FMul(a[p[0]], a[4 + p[1]]), a[8 + p[2]]), a[12 + p[3]])
    IN  IF Inversions(p) % 2 = 0 THEN product ELSE FNeg(product)

RECURSIVE LeibnizSum(_, _)
LeibnizSum(a, ps) ==
    IF ps = {} THEN F(0)
    ELSE LET p == CHOOSE x \in ps : TRUE
         IN  FAdd(LeibnizTerm(a, p), LeibnizSum(a, ps \ {p}))

\* C19: determinant() is the sum over the permutations p of 0..3 of
\* sign(p) * a[0][p(0)] * a[1][p(1)] * a[2][p(2)] * a[3][p(3)]; the transpose
\* has the same determinant, and the diagonal matrix of 2 has determinant 16.
C19_DeterminantIsLeibniz ==
    call.op = "determinant" =>
        /\ call.ret = LeibnizSum(call.self, Permutations4)
        /\ Mat4_determinant(Mat4_transpose(call.self)) = call.ret
        /\ (call.self = Diagonal(F(2), F(2), F(2), F(2)) => call.ret = F(16))

\* The determinant of a matrix of integers that is not symmetric is neither
\* zero nor the product of its diagonal.
C19_Witness ==
    /\ call.op = "determinant"
    /\ \A n \in 0..15 : call.self[n][2] = 0 /\ call.self[n][3] = 1
    /\ ~Symmetric(call.self)
    /\ ~IsZero(call.ret)
    /\ call.ret # LeibnizTerm(call.self, [i \in 0..3 |-> i])

(***************************************************************************)
(* Properties of Vec3, under SpecVec.                                       *)
(***************************************************************************)
\* C20: a.cross(b) is (a.y*b.z - a.z*b.y, a.z*b.x - a.x*b.z, a.x*b.y - a.y*b.x):
\* the cross product of (1,0,0) and (0,1,0) is (0,0,1), a.cross(b) is the
\* opposite of b.cross(a), and a.cross(b) is orthogonal to a and to b.
C20_CrossIsRightHanded ==
    call.op = "cross" =>
        LET a == call.self
            b == call.arg
        IN  /\ call.ret.x = FSub(FMul(a.y, b.z), FMul(a.z, b.y))
            /\ call.ret.y = FSub(FMul(a.z, b.x), FMul(a.x, b.z))
            /\ call.ret.z = FSub(FMul(a.x, b.y), FMul(a.y, b.x))
            /\ (a = UnitX /\ b = UnitY => call.ret = UnitZ)
            /\ call.ret = Vec3_neg(Vec3_cross(b, a))
            /\ Vec3_dot(call.ret, a) = F(0)
            /\ Vec3_dot(call.ret, b) = F(0)

\* Two vectors with no zero coordinate have a cross product with none.
C20_Witness ==
    /\ call.op = "cross"
    /\ \A c \in {call.self.x, call.self.y, call.self.z} : ~IsZero(c)
    /\ \A c \in {call.arg.x, call.arg.y, call.arg.z} : ~IsZero(c)
    /\ \A c \in {call.ret.x, call.ret.y, call.ret.z} : ~IsZero(c)

\* The components of a vector or quaternion, and the sum of their squares.
Components(v) == {v[f] : f \in DOMAIN v}
RECURSIVE SumOfSquares(_, _)
SumOfSquares(v, fields) ==
    IF fields = {} THEN F(0)
    ELSE LET f == CHOOSE x \in fields : TRUE
         IN  FAdd(FMul(v[f], v[f]), SumOfSquares(v, fields \ {f}))

C22_LookAtIsUnit ==
    call.op = "look_at" =>
        LET from == call.self
            to == call.arg.to
            up == call.arg.up
        IN  /\ to # from
            /\ Vec3_cross(Vec3_sub(to, from), up) # Vec3(F(0), F(0), F(0))
            /\ FLt(F(0), LookAt_trace(from, to, up))
            => IsUnit(call.ret)

\* C23: Vec4(v, w) has the x, y, z of v and the w member equal to the
\* argument w.
C23_Vec4FromVec3KeepsW ==
    call.op = "vec4_from_vec3" =>
        /\ call.ret.x = call.self.x
        /\ call.ret.y = call.self.y
        /\ call.ret.z = call.self.z
        /\ call.ret.w = call.arg

\* C24: q * v for a Vec4 v does not read v.w: the x, y, z of the result are
\* those of q * Vec3(v.x, v.y, v.z) whatever v.w is, and the w of the result
\* is 1, also when v.w is 0.
C24_QuatTimesVec4IgnoresW ==
    call.op = "quat_mul_vec4" =>
        /\ call.ret.w = F(1)
        /\ Vec3(call.ret.x, call.ret.y, call.ret.z)
               = Quat_mul_Vec3(call.self, Vec3(call.arg.x, call.arg.y, call.arg.z))
        /\ \A w \in {F(0), F(1), F(-MaxCoord), NaN} :
               Quat_mul_Vec4(call.self, [call.arg EXCEPT !.w = w]) = call.ret

\* A direction (w = 0) has been rotated off its line, and the result has w = 1.
C24_Witness ==
    /\ call.op = "quat_mul_vec4"
    /\ call.arg.w = F(0)
    /\ call.ret.w = F(1)
    /\ call.ret.x # call.arg.x
    /\ call.ret.y # call.arg.y

(***************************************************************************)
(* Properties of translate and scale, under SpecLog.                        *)
(***************************************************************************)
\* The sum of the translations and the product of the scales of a log.
RECURSIVE LogTranslation(_)
LogTranslation(log) ==
    IF log = <<>> THEN Vec3(F(0), F(0), F(0))
    ELSE LET rest == LogTranslation(Tail(log))
             v == Head(log).v
         IN  IF Head(log).kind = "translate"
             THEN Vec3(FAdd(v.x, rest.x), FAdd(v.y, rest.y), FAdd(v.z, rest.z))
             ELSE rest
RECURSIVE LogScale(_)
LogScale(log) ==
    IF log = <<>> THEN Vec3(F(1), F(1), F(1))
    ELSE LET rest == LogScale(Tail(log))
             v == Head(log).v
         IN  IF Head(log).kind = "scale"
             THEN Vec3(FMul(v.x, rest.x), FMul(v.y, rest.y), FMul(v.z, rest.z))
             ELSE rest

\* The matrix after the calls of a log, made in the order of the log.
RECURSIVE Replay(_, _)
Replay(a, log) ==
    IF log = <<>> THEN a
    ELSE Replay(IF Head(log).kind = "translate" THEN Mat4_translate(a, Head(log).v)
                ELSE Mat4_scale(a, Head(log).v),
                Tail(log))

\* The orders in which the calls of a log can be made.
Reorderings(log) ==
    {[i \in 1..Len(log) |-> log[p[i]]] :
        p \in {f \in [1..Len(log) -> 1..Len(log)] :
                  \A i, j \in 1..Len(log) : i # j => f[i] # f[j]}}

\* C25: after translate and scale calls on Mat4::identity(), in any order,
\* data[0], data[5], data[10] are the products of the scales, data[12..14] the
\* sums of the translations, data[15] is 1 and every other entry 0; so the
\* matrix takes Vec4(p, 1) to (sx*p.x + tx, sy*p.y + ty, sz*p.z + tz, 1).
C25_TranslateAndScaleCommute ==
    LET log == call.arg
        t == LogTranslation(log)
        s == LogScale(log)
    IN  /\ m = [n \in 0..15 |->
                   CASE n = 0 -> s.x [] n = 5 -> s.y [] n = 10 -> s.z
                     [] n = 12 -> t.x [] n = 13 -> t.y [] n = 14 -> t.z
                     [] n = 15 -> F(1) [] OTHER -> F(0)]
        /\ \A other \in Reorderings(log) : Replay(Mat4_identity, other) = m
        /\ call.op = "logged_mulvec" =>
               call.ret = Vec4(FAdd(FMul(s.x, call.self.x), t.x),
                               FAdd(FMul(s.y, call.self.y), t.y),
                               FAdd(FMul(s.z, call.self.z), t.z), F(1))

\* A scale, a translation and another scale have been made, in this order,
\* none of them trivial, and the matrix has been applied to a point.
C25_Witness ==
    /\ call.op = "logged_mulvec"
    /\ Len(call.arg) = 3
    /\ call.arg[1].kind = "scale"
    /\ call.arg[2].kind = "translate"
    /\ call.arg[3].kind = "scale"
    /\ call.arg[1].v # call.arg[3].v
    /\ ~IsZero(m[12]) /\ ~IsZero(m[0]) /\ m[0] # F(1)

(***************************************************************************)
(* to_mat4 and the two products, under SpecQuat.                            *)
(***************************************************************************)
\* C26: for unit quaternions a and b, (a * b).to_mat4() equals
\* a.to_mat4() * b.to_mat4(), entry by entry.
C26_ToMat4IsAHomomorphism ==
    (/\ call.op = "to_mat4_of_product"
     /\ IsUnit(call.self)
     /\ IsUnit(call.arg)) =>
        call.ret = Mat4_mul(Quat_to_mat4(call.self), Quat_to_mat4(call.arg))

\* Two unit quaternions that do not commute have been multiplied, and the
\* matrix of the product is not symmetric.
C26_Witness ==
    /\ call.op = "to_mat4_of_product"
    /\ IsUnit(call.self)
    /\ IsUnit(call.arg)
    /\ Quat_mul(call.self, call.arg) # Quat_mul(call.arg, call.self)
    /\ ~Symmetric(call.ret)

(***************************************************************************)
(* Properties of CLAY_RUN(APP) on Android, under SpecRun.                   *)
(***************************************************************************)
Live(h) == {a \in 1..Len(h) : h[a].live}

\* C27: update() is never invoked on an APP that the APP_CMD_DESTROY handler
\* has deleted.
C27_UpdateOnlyOnLiveApp ==
    pc = "update" => heap[android.userData].live

\* C28: at most one APP is alive at any time.
C28_AtMostOneAppAlive ==
    Cardinality(Live(heap)) <= 1

(***************************************************************************)
(* Properties of main_android.cc, under SpecMain.                           *)
(***************************************************************************)
\* The steps of android_main that read or write *window.
UsesWindow == {"is_open", "update", "set_quit", "loop"}

\* C30: the Window stored in app->userData is never read or written after
\* the APP_CMD_DESTROY handler has deleted it: not by the remainder of the
\* update() call the handler ran in, not by loop(window), not by a later
\* window->is_open().
C30_WindowNotUsedAfterDelete ==
    pc \in UsesWindow => heap[local.window].live

(***************************************************************************)
(* Properties of CLAY_RUN(app) on the desktop, under SpecDesktopFair.       *)
(***************************************************************************)
\* The window of the App, once the App has been constructed.
Created == heap # <<>>
TheWindow == heap[heap[local.app].window]
TheApp == heap[local.app]

\* C29: the Window that Window::create returns is open; once an update()
\* has polled SDL_QUIT, is_open() is false in every later state; _run then
\* calls update() no more after that call has returned, and deletes the App
\* exactly once.
C29_QuitEndsTheRun ==
    /\ [][pc = "new" => ~TheWindow'.is_quit]_vars
    /\ [][(Created /\ TheWindow.is_quit) => TheWindow'.is_quit]_vars
    /\ [](pc = "update" => ~TheWindow.is_quit)
    /\ [](pc = "delete" => TheApp.live)
    /\ [][(Created /\ ~TheApp.live) => UNCHANGED vars]_vars
    /\ (Created /\ TheWindow.is_quit) ~> (pc = "returned" /\ ~TheApp.live)

\* SDL_QUIT has been polled in an update() that saw the window resized, the
\* run has ended and the App is deleted, with an event still undelivered.
C29_Witness ==
    /\ pc = "returned"
    /\ TheWindow.is_quit
    /\ ~TheApp.live
    /\ TheWindow.size = "resized"
    /\ Len(env) = 1

====
